---- MODULE Spec2Model ----
(***************************************************************************)
(* Model of the image-hosting integration layer of the memori gallery      *)
(* generator: the path translator, the URL builders and the public-id      *)
(* extractor (cloudinary-utils), the inventory client                      *)
(* (listCloudinaryImages), the metadata resolver (getGalleries) and the    *)
(* identifier under which the upload script registers an asset.            *)
(*                                                                         *)
(* Strings are sequences of one-character strings, so that the regular     *)
(* expressions, prefix tests and comparisons of the code are computed      *)
(* character by character.                                                 *)
(***************************************************************************)
EXTENDS Integers, Sequences, FiniteSets, TLC

VARIABLES
    env,          \* import.meta.env: cloudName, apiKey, apiSecret
    pathPc,       \* path translator: "ready" | "done"
    localPath,    \* argument of localPathToCloudinaryPublicId
    publicId,     \* its return value
    idxPc,        \* asset indexing: "ready" | "uploaded" | "translated" | "both"
    filePath,     \* a local image file found under the galleries directory
    uploadedId,   \* identifier the upload script registers it under
    translatedId, \* localPathToCloudinaryPublicId of the same file
    urlPc,        \* URL builder: "ready" | "built" | "extracted" | "original" | "thumbnail" | "full"
    urlId,        \* the public id given to the builder
    urlOptions,   \* the CloudinaryImageOptions given to the builder
    builtUrl,     \* what the builder returned or threw
    extractedId,  \* getPublicIdFromCloudinaryUrl of the built URL
    originalUrl,  \* what buildCloudinaryOriginalUrl returned or threw for the same id
    listPc,       \* listCloudinaryImages: "ready" | "fetching" | "done"
    folderPath,   \* its argument
    requests,     \* the HTTP requests the call has issued, in order
    response,     \* what the remote answered: nothing yet, a failure or a response
    listResult,   \* what the call returned or threw
    consoleLog,   \* the console.warn / console.error calls of the call
    galPc,        \* getGalleries: "ready" | "running" | "done"
    entries,      \* the gallery entries getCollection("galleries") returned
    calls,        \* per entry, the state of its async callback (galleryPromises)
    galRequests,  \* the inventory requests issued so far: <<entry index, request>>
    galResult,    \* what getGalleries returned or threw
    metaPc,       \* getCloudinaryImageMetadata: "ready" | "fetching" | "done"
    metaId,       \* its argument, a public id
    metaRequests, \* the HTTP requests the call has issued, in order
    metaResponse, \* what the remote answered
    metaResult,   \* what the call returned or threw
    upPc,         \* uploadImages: "ready" | "batch" | "delay" | "done"
    imageFiles,   \* the image files found under the galleries directory
    missingFiles, \* those of them that are gone when their task starts
    tasks,        \* per file: "waiting" | "checking" | "uploading" | "uploaded" | "skipped" | "failed"
    batchStart,   \* the loop variable i: how many files the batches so far cover
    cloudIds,     \* the public ids that exist on the remote
    uploaded,     \* the three counters of the summary
    skipped,
    failed,
    uploadCalls,  \* the uploads issued so far: task, public id, whether it existed then
    heicPc,       \* convert-heic: "ready" | "converting" | "deleting"
    heicMode,     \* the current run: "plain" | "delete" | "delete-only"
    heicRuns,     \* how many runs have started
    heicDisk,     \* per gallery folder, the names of the files in it
    heicDisk0,    \* the same before the first run
    heicGallery,  \* index of the gallery folder being processed
    heicFiles,    \* heicFiles of processGallery / deleteHeicFiles
    heicIndex,    \* index of the file being handled
    heicCount,    \* converted, skipped and deleted of the current folder
    heicLog       \* what was done to which file, and whether its JPEG existed then

pathVars == <<pathPc, localPath, publicId>>
idxVars == <<idxPc, filePath, uploadedId, translatedId>>
urlVars == <<urlPc, urlId, urlOptions, builtUrl, extractedId, originalUrl>>
listVars == <<listPc, folderPath, requests, response, listResult, consoleLog>>
galVars == <<galPc, entries, calls, galRequests, galResult>>
metaVars == <<metaPc, metaId, metaRequests, metaResponse, metaResult>>
uploadVars ==
    <<upPc, imageFiles, missingFiles, tasks, batchStart, cloudIds, uploaded, skipped, failed,
      uploadCalls>>
heicVars ==
    <<heicPc, heicMode, heicRuns, heicDisk, heicDisk0, heicGallery, heicFiles, heicIndex,
      heicCount, heicLog>>
vars == <<env, pathVars, idxVars, urlVars, listVars, galVars, metaVars, uploadVars, heicVars>>

\* What the actions of one component leave alone.
OutsidePath == <<env, idxVars, urlVars, listVars, galVars, metaVars, uploadVars, heicVars>>
OutsideIdx == <<env, pathVars, urlVars, listVars, galVars, metaVars, uploadVars, heicVars>>
OutsideUrl == <<pathVars, idxVars, listVars, galVars, metaVars, uploadVars, heicVars>>
OutsideList == <<pathVars, idxVars, urlVars, galVars, metaVars, uploadVars, heicVars>>
OutsideGal == <<pathVars, idxVars, urlVars, listVars, metaVars, uploadVars, heicVars>>
OutsideMeta == <<pathVars, idxVars, urlVars, listVars, galVars, uploadVars, heicVars>>
OutsideUpload == <<env, pathVars, idxVars, urlVars, listVars, galVars, metaVars, heicVars>>
OutsideHeic ==
    <<env, pathVars, idxVars, urlVars, listVars, galVars, metaVars, uploadVars>>

(***************************************************************************)
(* Bounds of the model.                                                    *)
(***************************************************************************)
\* Longest local path, in chunks of PathChunks.
MaxChunks == 5

(***************************************************************************)
(* Strings.                                                                *)
(***************************************************************************)
\* JavaScript's undefined, for an environment variable or an option that is not set.
UNDEFINED == <<"undefined">>

\* "" is falsy, like undefined.
Truthy(s) == s # UNDEFINED /\ s # <<>>

\* s.startsWith(p)
StartsWith(s, p) == Len(s) >= Len(p) /\ SubSeq(s, 1, Len(p)) = p

\* s.endsWith(p)
EndsWith(s, p) == Len(s) >= Len(p) /\ SubSeq(s, Len(s) - Len(p) + 1, Len(s)) = p

\* The suffix of s from 1-based position i on.
From(s, i) == SubSeq(s, i, Len(s))

\* The characters the regular expressions' "." does not match.
LineTerminators == {"\n", "\r"}

NoLineTerminator(s) == \A i \in 1..Len(s) : s[i] \notin LineTerminators

\* The concatenation of a sequence of strings.
RECURSIVE Flatten(_)
Flatten(ss) == IF ss = <<>> THEN <<>> ELSE Head(ss) \o Flatten(Tail(ss))

SLASH == <<"/">>
GALLERIES_SLASH == <<"g","a","l","l","e","r","i","e","s","/">>
SRC_SLASH == <<"s","r","c","/">>
CONTENT_SLASH == <<"c","o","n","t","e","n","t","/">>

(***************************************************************************)
(* Path translator: localPathToCloudinaryPublicId.                         *)
(***************************************************************************)
\* localPath.replace(/\\/g, "/"), with the g flag dropped: only the first backslash
ReplaceFirstBackslash(s) ==
    LET hits == {i \in 1..Len(s) : s[i] = "\\"}
        first == CHOOSE i \in hits : \A j \in hits : i <= j
    IN  [i \in 1..Len(s) |-> IF hits # {} /\ i = first THEN "/" ELSE s[i]]

\* localPath.replace(/\\/g, "/")
ReplaceBackslashes(s) == [i \in 1..Len(s) |-> IF s[i] = "\\" THEN "/" ELSE s[i]]

\* Whether group 1 of /(?:^|\/)(galleries\/.+)$/ can start at position g:
\* "galleries/", then ".+" up to the end of the input.
GalleriesGroupAt(s, g) ==
    /\ StartsWith(From(s, g), GALLERIES_SLASH)
    /\ Len(s) >= g + Len(GALLERIES_SLASH)
    /\ NoLineTerminator(From(s, g + Len(GALLERIES_SLASH)))

\* publicId.match(/(?:^|\/)(galleries\/.+)$/): the engine tries the start
\* positions from the left, and at each one "^" before "/". The result is the
\* position where group 1 starts, 0 when there is no match.
RECURSIVE GalleriesMatch(_, _)
GalleriesMatch(s, i) ==
    IF i > Len(s) THEN 0
    ELSE IF i = 1 /\ GalleriesGroupAt(s, 1) THEN 1
    ELSE IF s[i] = "/" /\ GalleriesGroupAt(s, i + 1) THEN i + 1
    ELSE GalleriesMatch(s, i + 1)

\* s.replace(/^p/, "")
StripPrefix(s, p) == IF StartsWith(s, p) THEN From(s, Len(p) + 1) ELSE s

\* The fallback branch with the "galleries/" test dropped: always prepends.
FallbackAlwaysPrepend(s) ==
    GALLERIES_SLASH \o StripPrefix(StripPrefix(s, SRC_SLASH), CONTENT_SLASH)

\* The fallback branch: remove the common prefixes, ensure "galleries/".
PathFallback(s) ==
    LET stripped == StripPrefix(StripPrefix(s, SRC_SLASH), CONTENT_SLASH)
    IN  IF StartsWith(stripped, GALLERIES_SLASH) THEN stripped
        ELSE GALLERIES_SLASH \o stripped

\* The translator without the separator normalisation being global.
TranslateFirstBackslashOnly(p) ==
    LET s == ReplaceFirstBackslash(p)
        g == GalleriesMatch(s, 1)
    IN  IF g # 0 THEN From(s, g) ELSE PathFallback(s)

localPathToCloudinaryPublicId(p) ==
    LET s == ReplaceBackslashes(p)
        g == GalleriesMatch(s, 1)
    IN  IF g # 0 THEN From(s, g) ELSE PathFallback(s)

(***************************************************************************)
(* The local paths the translator is applied to: every concatenation of    *)
(* at most MaxChunks chunks.                                               *)
(***************************************************************************)
PathChunks ==
    { GALLERIES_SLASH,
      <<"g","a","l","l","e","r","i","e","s">>,
      SLASH,
      <<"\\">>,
      <<"a">>,
      SRC_SLASH,
      CONTENT_SLASH,
      <<"\n">> }

RECURSIVE ChunkSeqs(_)
ChunkSeqs(n) ==
    IF n = 0 THEN {<<>>}
    ELSE LET shorter == ChunkSeqs(n - 1)
         IN  shorter \cup {Append(cs, c) : cs \in {x \in shorter : Len(x) = n - 1}, c \in PathChunks}

LocalPaths == {Flatten(cs) : cs \in ChunkSeqs(MaxChunks)}

(***************************************************************************)
(* Component states at rest.                                               *)
(***************************************************************************)
PathIdle == pathPc = "idle" /\ localPath = <<>> /\ publicId = <<>>
IdxIdle == idxPc = "idle" /\ filePath = <<>> /\ uploadedId = <<>> /\ translatedId = <<>>

\* What a call ends with: a returned value or a thrown error.
NoError == [message |-> "", status |-> <<>>, text |-> <<>>]
Returned(v) == [kind |-> "return", value |-> v, error |-> NoError]
Thrown(e) == [kind |-> "throw", value |-> <<>>, error |-> e]
Pending == [kind |-> "none", value |-> <<>>, error |-> NoError]

\* A CloudinaryImageOptions object: an optional number is <<>> or <<n>>, an
\* optional string is UNDEFINED or its characters, quality is "auto" or a number.
NoQuality == [kind |-> "undefined", n |-> 0]
NoOptions ==
    [width |-> <<>>, height |-> <<>>, crop |-> UNDEFINED, gravity |-> UNDEFINED,
     quality |-> NoQuality, format |-> UNDEFINED]

UrlIdle ==
    /\ urlPc = "idle" /\ urlId = <<>> /\ urlOptions = NoOptions
    /\ builtUrl = Pending /\ extractedId = UNDEFINED /\ originalUrl = Pending

NoResponse == [kind |-> "none", status |-> 0, body |-> [json |-> "none"]]

ListIdle ==
    /\ listPc = "idle" /\ folderPath = <<>> /\ requests = <<>>
    /\ response = NoResponse /\ listResult = Pending /\ consoleLog = <<>>

GalIdle ==
    /\ galPc = "idle" /\ entries = <<>> /\ calls = <<>>
    /\ galRequests = <<>> /\ galResult = Pending

MetaIdle ==
    /\ metaPc = "idle" /\ metaId = <<>> /\ metaRequests = <<>>
    /\ metaResponse = NoResponse /\ metaResult = Pending

UploadIdle ==
    /\ upPc = "idle" /\ imageFiles = <<>> /\ missingFiles = {} /\ tasks = <<>>
    /\ batchStart = 0 /\ cloudIds = {} /\ uploaded = 0 /\ skipped = 0 /\ failed = 0
    /\ uploadCalls = {}

NoCount == [converted |-> 0, skipped |-> 0, deleted |-> 0]

HeicIdle ==
    /\ heicPc = "idle" /\ heicMode = "none" /\ heicRuns = 0
    /\ heicDisk = <<>> /\ heicDisk0 = <<>> /\ heicGallery = 0 /\ heicFiles = <<>>
    /\ heicIndex = 0 /\ heicCount = NoCount /\ heicLog = {}

NoEnv == [cloudName |-> UNDEFINED, apiKey |-> UNDEFINED, apiSecret |-> UNDEFINED]

(***************************************************************************)
(* SpecPath: the path translator applied to every local path.              *)
(***************************************************************************)
PathInit ==
    /\ env = NoEnv
    /\ pathPc = "ready"
    /\ localPath \in LocalPaths
    /\ publicId = <<>>
    /\ IdxIdle
    /\ UrlIdle
    /\ ListIdle
    /\ GalIdle
    /\ UploadIdle
    /\ HeicIdle
    /\ MetaIdle

\* One call of localPathToCloudinaryPublicId(localPath).
Translate ==
    /\ pathPc = "ready"
    /\ publicId' = localPathToCloudinaryPublicId(localPath)
    /\ pathPc' = "done"
    /\ UNCHANGED <<OutsidePath, localPath>>

PathNext == Translate

SpecPath == PathInit /\ [][PathNext]_vars

(***************************************************************************)
(* Claims about the path translator (checked under SpecPath).              *)
(***************************************************************************)
HasBackslash(s) == \E i \in 1..Len(s) : s[i] = "\\"

\* C4: for every input path, the translator returns a string that contains no
\* backslash, does not start with "/" and begins with the namespace root
\* "galleries/".
C4_CanonicalOutput ==
    pathPc = "done" =>
        /\ ~HasBackslash(publicId)
        /\ ~StartsWith(publicId, SLASH)
        /\ StartsWith(publicId, GALLERIES_SLASH)

\* C4 witness: a path with a backslash and no usable namespace root went
\* through the fallback branch.
C4_Witness ==
    /\ pathPc = "done"
    /\ HasBackslash(localPath)
    /\ GalleriesMatch(ReplaceBackslashes(localPath), 1) = 0
    /\ Len(localPath) > 1

\* The positions where a segment "galleries" followed by "/" starts.
RootSegmentStarts(s) ==
    {g \in 1..Len(s) :
        /\ g = 1 \/ s[g - 1] = "/"
        /\ StartsWith(From(s, g), GALLERIES_SLASH)}

\* Those of them that are followed by at least one more character and no line
\* break up to the end of the path.
RootSegmentStartsWithRest(s) ==
    {g \in RootSegmentStarts(s) :
        /\ Len(From(s, g)) > Len(GALLERIES_SLASH)
        /\ NoLineTerminator(From(s, g + Len(GALLERIES_SLASH)))}

Least(S) == CHOOSE x \in S : \A y \in S : x <= y

\* The reference's other branch: strip a leading "src/", then a leading
\* "content/", and prepend "galleries/" unless the result starts with it.
ReferenceFallback(s) ==
    LET a == IF StartsWith(s, SRC_SLASH) THEN From(s, Len(SRC_SLASH) + 1) ELSE s
        b == IF StartsWith(a, CONTENT_SLASH) THEN From(a, Len(CONTENT_SLASH) + 1) ELSE a
    IN  IF StartsWith(b, GALLERIES_SLASH) THEN b ELSE GALLERIES_SLASH \o b

\* The reference of the claim as written: the suffix from the first segment
\* "galleries" followed by "/".
ReferenceAsClaimed(p) ==
    LET s == [i \in 1..Len(p) |-> IF p[i] = "\\" THEN "/" ELSE p[i]]
    IN  IF RootSegmentStarts(s) # {} THEN From(s, Least(RootSegmentStarts(s)))
        ELSE ReferenceFallback(s)

\* The reference as amended: the occurrence must have a rest.
ReferenceAmended(p) ==
    LET s == [i \in 1..Len(p) |-> IF p[i] = "\\" THEN "/" ELSE p[i]]
    IN  IF RootSegmentStartsWithRest(s) # {}
        THEN From(s, Least(RootSegmentStartsWithRest(s)))
        ELSE ReferenceFallback(s)

\* C5 as written: the translator equals the reference that cuts at the first
\* segment "galleries" followed by "/", whatever follows it.
C5_EqualsReferenceAsClaimed ==
    pathPc = "done" => publicId = ReferenceAsClaimed(localPath)

\* C5 amended: the translator equals the reference that cuts at the first
\* segment "galleries" followed by "/", at least one more character and no
\* line break up to the end of the path; otherwise it strips a leading "src/"
\* and then a leading "content/" and prepends "galleries/" unless present.
C5_EqualsReferenceAmended ==
    pathPc = "done" => publicId = ReferenceAmended(localPath)

\* C5 witness: a path with two namespace-root segments was cut at the first.
C5_Witness ==
    /\ pathPc = "done"
    /\ Cardinality(RootSegmentStartsWithRest(ReplaceBackslashes(localPath))) >= 2
    /\ Least(RootSegmentStartsWithRest(ReplaceBackslashes(localPath))) > 1
    /\ publicId = From(ReplaceBackslashes(localPath),
                       Least(RootSegmentStartsWithRest(ReplaceBackslashes(localPath))))

(***************************************************************************)
(* Asset indexing: the identifier under which scripts/upload-to-cloudinary *)
(* registers a local image file.                                           *)
(***************************************************************************)
\* path.join(__dirname, "../src/content/galleries"), for a checkout at /repo
GALLERIES_DIR ==
    <<"/","r","e","p","o","/","s","r","c","/","c","o","n","t","e","n","t","/",
      "g","a","l","l","e","r","i","e","s">>

IMAGE_EXTENSIONS ==
    { <<".","j","p","g">>, <<".","j","p","e","g">>, <<".","p","n","g">>,
      <<".","w","e","b","p">>, <<".","h","e","i","c">>,
      <<".","J","P","G">>, <<".","J","P","E","G">>, <<".","P","N","G">>,
      <<".","W","E","B","P">>, <<".","H","E","I","C">> }

\* path.relative(dir, file) for a file that getImageFiles found under dir
PathRelative(dir, file) == StripPrefix(file, dir \o SLASH)

\* The positions of c in s.
Positions(s, c) == {i \in 1..Len(s) : s[i] = c}

Greatest(S) == CHOOSE x \in S : \A y \in S : x >= y

\* path.basename(p), for a path without a trailing separator
Basename(p) ==
    IF Positions(p, "/") = {} THEN p ELSE From(p, Greatest(Positions(p, "/")) + 1)

\* path.extname(name): from the last "." of the base name on, "" when there is
\* none or when it is the first character
Extname(name) ==
    LET b == Basename(name)
        dots == Positions(b, ".")
    IN  IF dots = {} \/ Greatest(dots) = 1 THEN <<>> ELSE From(b, Greatest(dots))

isImageFile(filename) == Extname(filename) \in IMAGE_EXTENSIONS

\* s.replace(/\.[^/.]+$/, ""): the leftmost "." that is followed, up to the end,
\* by one or more characters other than "/" and "."
StripExtension(s) ==
    LET cut == {i \in Positions(s, ".") :
                    /\ i < Len(s)
                    /\ \A j \in (i + 1)..Len(s) : s[j] \notin {"/", "."}}
    IN  IF cut = {} THEN s ELSE SubSeq(s, 1, Least(cut) - 1)

localPathToPublicId(file, galleriesDir) ==
    StripExtension(ReplaceBackslashes(PathRelative(galleriesDir, file)))

\* relativePath.split(path.sep)[0]
FirstSegment(rel) ==
    IF Positions(rel, "/") = {} THEN rel
    ELSE SubSeq(rel, 1, Least(Positions(rel, "/")) - 1)

getGalleryFolderPath(file, galleriesDir) ==
    GALLERIES_SLASH \o FirstSegment(PathRelative(galleriesDir, file))

\* uploadImage registers the file with folder: folder and public_id:
\* path.basename(publicId); the asset's identifier is then folder/filename
\* (fullPublicId of uploadImages).
RegisteredPublicId(file, galleriesDir) ==
    getGalleryFolderPath(file, galleriesDir) \o SLASH
        \o Basename(localPathToPublicId(file, galleriesDir))

\* The local image files: <galleries dir>/<slug>/[sub/]<name><ext>
FileSlugs == {<<"t","r","i","p">>, <<"a","l","p","s">>}
FileSubdirs == {<<>>, <<"d","a","y","1","/">>}
FileNames == {<<"a">>, <<"a",".","b">>, <<"I","M","G","_","1">>}

ImageFiles ==
    {f \in {GALLERIES_DIR \o SLASH \o g \o SLASH \o d \o n \o e :
                g \in FileSlugs, d \in FileSubdirs, n \in FileNames, e \in IMAGE_EXTENSIONS} :
        isImageFile(f)}

IdxInit ==
    /\ env = NoEnv
    /\ PathIdle
    /\ UrlIdle
    /\ ListIdle
    /\ GalIdle
    /\ MetaIdle
    /\ UploadIdle
    /\ HeicIdle
    /\ idxPc = "ready"
    /\ filePath \in ImageFiles
    /\ uploadedId = <<>>
    /\ translatedId = <<>>

\* The upload task of uploadImages for filePath.
RegisterUpload ==
    /\ idxPc \in {"ready", "translated"}
    /\ uploadedId' = RegisteredPublicId(filePath, GALLERIES_DIR)
    /\ idxPc' = IF idxPc = "ready" THEN "uploaded" ELSE "both"
    /\ UNCHANGED <<OutsideIdx, filePath, translatedId>>

\* The site's translation of the same file's path.
TranslateFile ==
    /\ idxPc \in {"ready", "uploaded"}
    /\ translatedId' = localPathToCloudinaryPublicId(filePath)
    /\ idxPc' = IF idxPc = "ready" THEN "translated" ELSE "both"
    /\ UNCHANGED <<OutsideIdx, filePath, uploadedId>>

IdxNext == RegisterUpload \/ TranslateFile

SpecIndex == IdxInit /\ [][IdxNext]_vars

\* C6: for every local image file galleries/<slug>/<name>.<ext>, the identifier
\* the upload script registers (folder + public_id) equals the translator's
\* identifier for that file, extension included.
C6_IndexedIdEqualsTranslatedId ==
    idxPc = "both" => uploadedId = translatedId

\* What the code does instead: the registered identifier is the translated one
\* without its extension, for a file directly in its gallery folder.
C6_RegisteredWithoutExtension ==
    (idxPc = "both" /\ FirstSegment(PathRelative(GALLERIES_DIR, filePath)) \o SLASH
                        \o Basename(filePath) = PathRelative(GALLERIES_DIR, filePath))
        => uploadedId \o Extname(filePath) = translatedId

(***************************************************************************)
(* URL builder and public-id extractor.                                    *)
(***************************************************************************)
\* getCloudinaryConfig(): <<>> for null, else <<config>>
\* A configuration that also needs the API key.
ConfigNeedingKey ==
    IF ~Truthy(env.cloudName) \/ ~Truthy(env.apiKey) THEN <<>>
    ELSE <<[cloudName |-> env.cloudName, apiKey |-> env.apiKey, apiSecret |-> env.apiSecret]>>

getCloudinaryConfig ==
    IF ~Truthy(env.cloudName) THEN <<>>
    ELSE <<[cloudName |-> env.cloudName, apiKey |-> env.apiKey, apiSecret |-> env.apiSecret]>>

NotConfigured == [message |-> "Cloudinary is not configured", status |-> <<>>, text |-> <<>>]

Digit(d) ==
    CASE d = 0 -> "0" [] d = 1 -> "1" [] d = 2 -> "2" [] d = 3 -> "3" [] d = 4 -> "4"
      [] d = 5 -> "5" [] d = 6 -> "6" [] d = 7 -> "7" [] d = 8 -> "8" [] d = 9 -> "9"

\* `${n}` for a non-negative integer n
RECURSIVE NumberToString(_)
NumberToString(n) ==
    IF n < 10 THEN <<Digit(n)>> ELSE Append(NumberToString(n \div 10), Digit(n % 10))

\* transformations.join(",")
RECURSIVE Join(_, _)
Join(ss, sep) ==
    IF ss = <<>> THEN <<>>
    ELSE IF Len(ss) = 1 THEN ss[1]
    ELSE ss[1] \o sep \o Join(Tail(ss), sep)

AUTO == <<"a","u","t","o">>
LIMIT == <<"l","i","m","i","t">>
HOST_PREFIX ==
    <<"h","t","t","p","s",":","/","/","r","e","s",".","c","l","o","u","d","i","n","a","r","y",
      ".","c","o","m","/">>
IMAGE_UPLOAD == <<"/","i","m","a","g","e","/","u","p","l","o","a","d","/">>

\* The tokens with f_auto pushed for the format "auto".
TransformationsWithAutoFormat(options) ==
    (IF options.width # <<>> /\ options.width[1] # 0
        THEN <<<<"w", "_">> \o NumberToString(options.width[1])>> ELSE <<>>)
    \o (IF options.height # <<>> /\ options.height[1] # 0
        THEN <<<<"h", "_">> \o NumberToString(options.height[1])>> ELSE <<>>)
    \o (IF Truthy(options.crop) THEN <<<<"c", "_">> \o options.crop>> ELSE <<>>)
    \o (IF Truthy(options.gravity) THEN <<<<"g", "_">> \o options.gravity>> ELSE <<>>)
    \o (IF options.quality.kind = "auto" THEN <<<<"q", "_">> \o AUTO>>
        ELSE IF options.quality.kind = "number" /\ options.quality.n # 0
        THEN <<<<"q", "_">> \o NumberToString(options.quality.n)>> ELSE <<>>)
    \o (IF Truthy(options.format) THEN <<<<"f", "_">> \o options.format>> ELSE <<>>)

\* The tokens pushed to transformations, in the order of the code.
Transformations(options) ==
    (IF options.width # <<>> /\ options.width[1] # 0
        THEN <<<<"w", "_">> \o NumberToString(options.width[1])>> ELSE <<>>)
    \o (IF options.height # <<>> /\ options.height[1] # 0
        THEN <<<<"h", "_">> \o NumberToString(options.height[1])>> ELSE <<>>)
    \o (IF Truthy(options.crop) THEN <<<<"c", "_">> \o options.crop>> ELSE <<>>)
    \o (IF Truthy(options.gravity) THEN <<<<"g", "_">> \o options.gravity>> ELSE <<>>)
    \o (IF options.quality.kind = "auto" THEN <<<<"q", "_">> \o AUTO>>
        ELSE IF options.quality.kind = "number" /\ options.quality.n # 0
        THEN <<<<"q", "_">> \o NumberToString(options.quality.n)>> ELSE <<>>)
    \o (IF Truthy(options.format) /\ options.format # AUTO
        THEN <<<<"f", "_">> \o options.format>> ELSE <<>>)

\* The identifier taken as it is.
KeepPublicId(id) == id

\* publicId.startsWith("/") ? publicId.slice(1) : publicId
CleanPublicId(id) == IF StartsWith(id, SLASH) THEN From(id, 2) ELSE id

buildCloudinaryUrl(id, options) ==
    IF getCloudinaryConfig = <<>> THEN Thrown(NotConfigured)
    ELSE LET transformations == Transformations(options)
             transformStr == IF Len(transformations) > 0
                             THEN Join(transformations, <<",">>) \o SLASH ELSE <<>>
         IN  Returned(HOST_PREFIX \o getCloudinaryConfig[1].cloudName \o IMAGE_UPLOAD
                        \o transformStr \o CleanPublicId(id))

buildCloudinaryThumbnailUrl(id, width, height) ==
    buildCloudinaryUrl(id, [NoOptions EXCEPT !.width = width, !.height = height,
                                             !.crop = LIMIT,
                                             !.quality = [kind |-> "auto", n |-> 0],
                                             !.format = AUTO])

\* The original URL with a transformation that changes nothing.
OriginalUrlWithFormatToken(id) ==
    IF getCloudinaryConfig = <<>> THEN Thrown(NotConfigured)
    ELSE Returned(HOST_PREFIX \o getCloudinaryConfig[1].cloudName \o IMAGE_UPLOAD
                    \o <<"f","_","a","u","t","o","/">> \o CleanPublicId(id))

buildCloudinaryOriginalUrl(id) ==
    IF getCloudinaryConfig = <<>> THEN Thrown(NotConfigured)
    ELSE Returned(HOST_PREFIX \o getCloudinaryConfig[1].cloudName \o IMAGE_UPLOAD
                    \o CleanPublicId(id))

buildCloudinaryFullUrl(id, maxWidth) ==
    buildCloudinaryUrl(id, [NoOptions EXCEPT !.width = maxWidth, !.crop = LIMIT,
                                             !.quality = [kind |-> "auto", n |-> 0]])

UPLOAD_SEGMENT == <<"/","u","p","l","o","a","d","/">>

\* Whether "(.+)$" matches from position r on.
RestMatches(s, r) == r <= Len(s) /\ NoLineTerminator(From(s, r))

\* "(?:[^/]+\/)*(.+)$" from position r on: the star is greedy, so it first
\* takes one more non-empty segment with its "/", and gives it back only when
\* the rest cannot match after it. The result is where group 1 starts, 0 when
\* nothing matches.
RECURSIVE SegmentsThenRest(_, _)
SegmentsThenRest(s, r) ==
    LET slashes == {i \in r..Len(s) : s[i] = "/"}
        e == Least(slashes)
        deeper == SegmentsThenRest(s, e + 1)
    IN  IF slashes # {} /\ e > r /\ deeper # 0 THEN deeper
        ELSE IF RestMatches(s, r) THEN r
        ELSE 0

\* url.match(/\/upload\/(?:[^/]+\/)*(.+)$/), start positions tried from the
\* left: where group 1 starts, 0 for no match.
RECURSIVE UploadMatch(_, _)
UploadMatch(s, i) ==
    IF i > Len(s) THEN 0
    ELSE IF StartsWith(From(s, i), UPLOAD_SEGMENT)
            /\ SegmentsThenRest(s, i + Len(UPLOAD_SEGMENT)) # 0
    THEN SegmentsThenRest(s, i + Len(UPLOAD_SEGMENT))
    ELSE UploadMatch(s, i + 1)

\* null is UNDEFINED here
getPublicIdFromCloudinaryUrl(url) ==
    IF UploadMatch(url, 1) = 0 THEN UNDEFINED ELSE From(url, UploadMatch(url, 1))

(***************************************************************************)
(* SpecUrl: a URL is built for a public id and a transform, and the public *)
(* id is extracted from it again.                                          *)
(***************************************************************************)
\* Longest public id, in segments.
MaxIdSegments == 3

DEMO == <<"d","e","m","o">>
KEY == <<"k","e","y">>
SECRET == <<"s","e","c","r","e","t">>

IdSegments ==
    { <<"g","a","l","l","e","r","i","e","s">>, <<"t","r","i","p">>, <<"a",".","j","p","g">> }

RECURSIVE SegmentSeqs(_)
SegmentSeqs(n) ==
    IF n = 1 THEN {<<g>> : g \in IdSegments}
    ELSE LET shorter == SegmentSeqs(n - 1)
         IN  shorter \cup {Append(ss, g) : ss \in {x \in shorter : Len(x) = n - 1}, g \in IdSegments}

\* Identifiers without special characters: segments joined by "/".
PublicIds == {Join(ss, SLASH) : ss \in SegmentSeqs(MaxIdSegments)}

\* Identifiers given with one leading "/", and with two.
LeadingSlashIds ==
    { <<"/","t","r","i","p","/","a",".","j","p","g">>, <<"/","/","t","r","i","p">> }

Transforms ==
    [width : {<<>>, <<0>>, <<600>>},
     height : {<<>>, <<0>>, <<400>>},
     crop : {UNDEFINED, LIMIT},
     gravity : {UNDEFINED, <<"f","a","c","e">>},
     quality : {NoQuality, [kind |-> "auto", n |-> 0], [kind |-> "number", n |-> 0],
                [kind |-> "number", n |-> 80]},
     format : {UNDEFINED, AUTO, <<"w","e","b","p">>}]

UrlEnvs ==
    { NoEnv,
      [cloudName |-> DEMO, apiKey |-> UNDEFINED, apiSecret |-> UNDEFINED],
      [cloudName |-> DEMO, apiKey |-> KEY, apiSecret |-> SECRET] }

UrlInit ==
    /\ env \in UrlEnvs
    /\ PathIdle
    /\ IdxIdle
    /\ ListIdle
    /\ GalIdle
    /\ MetaIdle
    /\ UploadIdle
    /\ HeicIdle
    /\ urlPc = "ready"
    /\ urlId \in PublicIds \cup LeadingSlashIds
    /\ urlOptions \in Transforms
    /\ builtUrl = Pending
    /\ extractedId = UNDEFINED
    /\ originalUrl = Pending

\* buildCloudinaryUrl(urlId, urlOptions)
Build ==
    /\ urlPc = "ready"
    /\ builtUrl' = buildCloudinaryUrl(urlId, urlOptions)
    /\ urlPc' = "built"
    /\ UNCHANGED <<env, OutsideUrl, urlId, urlOptions, extractedId, originalUrl>>

\* getPublicIdFromCloudinaryUrl(the URL just built)
Extract ==
    /\ urlPc = "built"
    /\ builtUrl.kind = "return"
    /\ extractedId' = getPublicIdFromCloudinaryUrl(builtUrl.value)
    /\ urlPc' = "extracted"
    /\ UNCHANGED <<env, OutsideUrl, urlId, urlOptions, builtUrl, originalUrl>>

\* buildCloudinaryOriginalUrl(urlId), for the id a URL was just built for
BuildOriginal ==
    /\ urlPc = "built"
    /\ originalUrl' = buildCloudinaryOriginalUrl(urlId)
    /\ urlPc' = "original"
    /\ UNCHANGED <<env, OutsideUrl, urlId, urlOptions, builtUrl, extractedId>>

UrlNext == Build \/ Extract \/ BuildOriginal

SpecUrl == UrlInit /\ [][UrlNext]_vars

\* C1: for every transform and every identifier without special characters,
\* multi-segment ones included, extracting the public id from the built URL
\* gives the identifier back.
C1_ExtractRecoversId ==
    (urlPc = "extracted" /\ urlId \in PublicIds) => extractedId = urlId

\* What the code does instead: it gives back the last segment of the
\* identifier only.
C1_ExtractGivesLastSegment ==
    (urlPc = "extracted" /\ urlId \in PublicIds) => extractedId = Basename(urlId)

\* What the built URL starts with.
UrlHead == HOST_PREFIX \o env.cloudName \o IMAGE_UPLOAD

\* The identifier with one leading "/" removed.
WithoutOneLeadingSlash(id) == IF id # <<>> /\ id[1] = "/" THEN Tail(id) ELSE id

\* The part of the built URL between /image/upload/ and the identifier.
TransformSegment ==
    SubSeq(builtUrl.value, Len(UrlHead) + 1,
           Len(builtUrl.value) - Len(WithoutOneLeadingSlash(urlId)))

\* s.split(c)
RECURSIVE Split(_, _)
Split(s, c) ==
    LET cut == {i \in 1..Len(s) : s[i] = c}
    IN  IF cut = {} THEN <<s>>
        ELSE <<SubSeq(s, 1, Least(cut) - 1)>> \o Split(From(s, Least(cut) + 1), c)

\* The tokens of the transformation segment: none without a segment,
\* otherwise what the commas separate in front of its final "/".
SegmentTokens ==
    IF TransformSegment = <<>> THEN <<>>
    ELSE Split(SubSeq(TransformSegment, 1, Len(TransformSegment) - 1), ",")

\* How many tokens of the built URL begin with the letter and "_".
TokenCount(letter) ==
    Cardinality({k \in 1..Len(SegmentTokens) : StartsWith(SegmentTokens[k], <<letter, "_">>)})

\* The options that are present in the transform.
PresentOptions ==
    (IF urlOptions.width # <<>> THEN {"w"} ELSE {})
    \cup (IF urlOptions.height # <<>> THEN {"h"} ELSE {})
    \cup (IF urlOptions.crop # UNDEFINED THEN {"c"} ELSE {})
    \cup (IF urlOptions.gravity # UNDEFINED THEN {"g"} ELSE {})
    \cup (IF urlOptions.quality.kind # "undefined" THEN {"q"} ELSE {})
    \cup (IF urlOptions.format # UNDEFINED THEN {"f"} ELSE {})

\* The present options whose value is the number 0 or the format "auto".
ZeroOrAutoFormat ==
    (IF urlOptions.width = <<0>> THEN {"w"} ELSE {})
    \cup (IF urlOptions.height = <<0>> THEN {"h"} ELSE {})
    \cup (IF urlOptions.quality = [kind |-> "number", n |-> 0] THEN {"q"} ELSE {})
    \cup (IF urlOptions.format = AUTO THEN {"f"} ELSE {})

OptionLetters == {"w", "h", "c", "g", "q", "f"}

\* C18 as written: every option that is present in the transform contributes
\* exactly one token to the transformation segment, an absent one none.
C18_PresentOptionOneToken ==
    (urlPc = "built" /\ builtUrl.kind = "return") =>
        \A o \in OptionLetters :
            TokenCount(o) = IF o \in PresentOptions THEN 1 ELSE 0

\* C18 amended: every option that is present contributes exactly one token,
\* except a width, height or quality of 0 and the format "auto", which
\* contribute none like an absent option; and the segment holds no other token.
C18_PresentOptionOneTokenUnlessZeroOrAuto ==
    (urlPc = "built" /\ builtUrl.kind = "return") =>
        /\ \A o \in OptionLetters :
               TokenCount(o) = IF o \in PresentOptions \ ZeroOrAutoFormat THEN 1 ELSE 0
        /\ Len(SegmentTokens) = Cardinality(PresentOptions \ ZeroOrAutoFormat)

\* C18 witness: all six options are present with values that count, and the
\* URL carries six tokens.
C18_Witness ==
    /\ urlPc = "built" /\ builtUrl.kind = "return"
    /\ PresentOptions = OptionLetters /\ ZeroOrAutoFormat = {}
    /\ Len(SegmentTokens) = 6

OptionOrder == <<"w", "h", "c", "g", "q", "f">>

\* The option contributes a token.
Contributes(o) == o \in PresentOptions \ ZeroOrAutoFormat

\* The token of a contributing option: its letter, "_" and its value.
TokenOf(o) ==
    <<o, "_">> \o
        CASE o = "w" -> NumberToString(urlOptions.width[1])
          [] o = "h" -> NumberToString(urlOptions.height[1])
          [] o = "c" -> urlOptions.crop
          [] o = "g" -> urlOptions.gravity
          [] o = "q" -> IF urlOptions.quality.kind = "auto" THEN AUTO
                        ELSE NumberToString(urlOptions.quality.n)
          [] o = "f" -> urlOptions.format

\* The tokens in the order w_, h_, c_, g_, q_, f_.
TokensInOrder ==
    LET os == SelectSeq(OptionOrder, Contributes)
    IN  [k \in 1..Len(os) |-> TokenOf(os[k])]

\* C19: the built URL is https://res.cloudinary.com/<account>/image/upload/,
\* then the tokens in the order w_, h_, c_, g_, q_, f_ joined by commas and
\* followed by one "/" (nothing when there is no token), then the identifier
\* with one leading "/" removed.
C19_ExactUrl ==
    (urlPc = "built" /\ builtUrl.kind = "return") =>
        builtUrl.value =
            UrlHead
            \o (IF TokensInOrder = <<>> THEN <<>> ELSE Join(TokensInOrder, <<",">>) \o SLASH)
            \o WithoutOneLeadingSlash(urlId)

\* C19 witness: the URL built for "//trip" with all six options.
C19_Witness ==
    /\ urlPc = "built" /\ builtUrl.kind = "return" /\ env.cloudName = DEMO
    /\ urlId = <<"/","/","t","r","i","p">>
    /\ builtUrl.value =
           HOST_PREFIX \o DEMO \o IMAGE_UPLOAD
           \o <<"w","_","6","0","0",",","h","_","4","0","0",",","c","_","l","i","m","i","t",",",
                "g","_","f","a","c","e",",","q","_","8","0",",","f","_","w","e","b","p","/">>
           \o <<"/","t","r","i","p">>

\* C20: for the empty transform the built URL equals the original URL of the
\* same identifier (both fail alike without an account), and in it the
\* identifier follows /image/upload/ directly.
C20_EmptyTransformEqualsOriginal ==
    (urlPc = "original" /\ urlOptions = NoOptions) =>
        /\ builtUrl = originalUrl
        /\ builtUrl.kind = "return" =>
               builtUrl.value = UrlHead \o WithoutOneLeadingSlash(urlId)

\* C20 witness: both URLs were built for /trip/a.jpg and the empty transform.
C20_Witness ==
    /\ urlPc = "original" /\ urlOptions = NoOptions
    /\ urlId = <<"/","t","r","i","p","/","a",".","j","p","g">>
    /\ originalUrl.kind = "return"
    /\ originalUrl.value = HOST_PREFIX \o DEMO \o IMAGE_UPLOAD
                               \o <<"t","r","i","p","/","a",".","j","p","g">>
    /\ builtUrl = originalUrl

(***************************************************************************)
(* SpecBuilders: one call of one of the four URL builders, under every     *)
(* configuration; urlOptions holds the width and the height of the call.   *)
(***************************************************************************)
THUMBNAIL_WIDTH == 400
FULL_MAX_WIDTH == 2400

\* A parameter with a default value: the default when the argument is undefined.
OrDefaultParameter(argument, default) == IF argument = <<>> THEN <<default>> ELSE argument

C_FILL == <<"c","_","f","i","l","l">>
C_LIMIT == <<"c","_","l","i","m","i","t">>

\* Identifiers: plain, with a leading "/", and one that reads like a token.
BuilderIds ==
    { <<"t","r","i","p","/","a",".","j","p","g">>,
      <<"/","t","r","i","p","/","a",".","j","p","g">>,
      C_FILL }

BuilderSizes ==
    {[NoOptions EXCEPT !.width = w, !.height = h] :
        w \in {<<>>, <<0>>, <<600>>}, h \in {<<>>, <<0>>, <<400>>}}

BuilderEnvs ==
    [cloudName : {UNDEFINED, <<>>, DEMO},
     apiKey : {UNDEFINED, KEY},
     apiSecret : {UNDEFINED, SECRET}]

BuildersInit ==
    /\ env \in BuilderEnvs
    /\ PathIdle
    /\ IdxIdle
    /\ ListIdle
    /\ GalIdle
    /\ MetaIdle
    /\ UploadIdle
    /\ HeicIdle
    /\ urlPc = "ready"
    /\ urlId \in BuilderIds
    /\ urlOptions \in BuilderSizes
    /\ builtUrl = Pending
    /\ extractedId = UNDEFINED
    /\ originalUrl = Pending

\* The thumbnail builder with the crop it must not use.
BuildThumbnailFilling ==
    /\ urlPc = "ready"
    /\ builtUrl' = buildCloudinaryUrl(urlId,
                        [NoOptions EXCEPT !.width = OrDefaultParameter(urlOptions.width, THUMBNAIL_WIDTH),
                                          !.height = urlOptions.height,
                                          !.crop = <<"f","i","l","l">>,
                                          !.quality = [kind |-> "auto", n |-> 0],
                                          !.format = AUTO])
    /\ urlPc' = "thumbnail"
    /\ UNCHANGED <<env, OutsideUrl, urlId, urlOptions, extractedId, originalUrl>>

\* buildCloudinaryThumbnailUrl(urlId, width, height)
BuildThumbnail ==
    /\ urlPc = "ready"
    /\ builtUrl' = buildCloudinaryThumbnailUrl(
                        urlId, OrDefaultParameter(urlOptions.width, THUMBNAIL_WIDTH),
                        urlOptions.height)
    /\ urlPc' = "thumbnail"
    /\ UNCHANGED <<env, OutsideUrl, urlId, urlOptions, extractedId, originalUrl>>

\* buildCloudinaryFullUrl(urlId, maxWidth)
BuildFull ==
    /\ urlPc = "ready"
    /\ builtUrl' = buildCloudinaryFullUrl(
                        urlId, OrDefaultParameter(urlOptions.width, FULL_MAX_WIDTH))
    /\ urlPc' = "full"
    /\ UNCHANGED <<env, OutsideUrl, urlId, urlOptions, extractedId, originalUrl>>

BuildersNext == Build \/ BuildOriginal \/ BuildThumbnail \/ BuildFull

SpecBuilders == BuildersInit /\ [][BuildersNext]_vars

\* C21: a URL produced by buildCloudinaryThumbnailUrl or
\* buildCloudinaryFullUrl holds the token c_limit and not the token c_fill,
\* for every identifier, width and height.
C21_LimitNeverFill ==
    (urlPc \in {"thumbnail", "full"} /\ builtUrl.kind = "return") =>
        /\ \E k \in 1..Len(SegmentTokens) : SegmentTokens[k] = C_LIMIT
        /\ \A k \in 1..Len(SegmentTokens) : SegmentTokens[k] # C_FILL

\* C21 witness: a thumbnail URL for a width and a height, whose identifier
\* reads c_fill.
C21_Witness ==
    /\ urlPc = "thumbnail" /\ builtUrl.kind = "return"
    /\ urlId = C_FILL
    /\ urlOptions.width = <<600>> /\ urlOptions.height = <<400>>
    /\ SegmentTokens = << <<"w","_","6","0","0">>, <<"h","_","4","0","0">>, C_LIMIT,
                          <<"q","_","a","u","t","o">> >>

\* What the builder that was called last ended with.
LastBuilt == IF urlPc = "original" THEN originalUrl ELSE builtUrl

\* C22: each of the four builders has thrown the configuration error exactly
\* when the account identity is absent, has returned a URL otherwise, whether
\* or not the key and the secret are set, and has issued no request.
C22_BuildersNeedIdentityOnly ==
    urlPc \in {"built", "thumbnail", "full", "original"} =>
        /\ ~Truthy(env.cloudName) => LastBuilt = Thrown(NotConfigured)
        /\ Truthy(env.cloudName) => LastBuilt.kind = "return"
        /\ requests = <<>> /\ metaRequests = <<>> /\ galRequests = <<>>

\* C22 witness: the full-size builder has returned a URL with the account
\* identity set and neither key nor secret.
C22_Witness ==
    /\ urlPc = "full" /\ builtUrl.kind = "return"
    /\ env = [cloudName |-> DEMO, apiKey |-> UNDEFINED, apiSecret |-> UNDEFINED]
    /\ requests = <<>> /\ metaRequests = <<>> /\ galRequests = <<>>

(***************************************************************************)
(* Inventory client: listCloudinaryImages.                                 *)
(***************************************************************************)
CredentialsRequired ==
    [message |-> "Cloudinary API credentials are required to list images. Please set CLOUDINARY_API_KEY and CLOUDINARY_API_SECRET.",
     status |-> <<>>, text |-> <<>>]

\* `Failed to list Cloudinary images: ${response.status} ${errorText}`
ListFailed(status, errorText) ==
    [message |-> "Failed to list Cloudinary images: ", status |-> <<status>>,
     text |-> <<errorText>>]

\* What fetch rejects with when the request cannot be completed.
FetchFailed == [message |-> "fetch failed", status |-> <<>>, text |-> <<>>]

\* What response.json() rejects with for a body that is not JSON.
JsonSyntaxError == [message |-> "Unexpected token in JSON", status |-> <<>>, text |-> <<>>]

\* What data.resources throws for a body that is the JSON value null.
NullDataTypeError ==
    [message |-> "Cannot read properties of null (reading 'resources')",
     status |-> <<>>, text |-> <<>>]

\* The precondition with the secret forgotten.
CredentialsMissingKeyOnly ==
    \/ getCloudinaryConfig = <<>>
    \/ ~Truthy(getCloudinaryConfig[1].apiKey)

\* !config || !config.apiKey || !config.apiSecret
CredentialsMissing ==
    \/ getCloudinaryConfig = <<>>
    \/ ~Truthy(getCloudinaryConfig[1].apiKey)
    \/ ~Truthy(getCloudinaryConfig[1].apiSecret)

\* encodeURIComponent: the unreserved characters stay, "/" becomes %2F
EncodeURIComponent(s) ==
    Flatten([i \in 1..Len(s) |->
        CASE s[i] = "/" -> <<"%", "2", "F">>
          [] s[i] = "\\" -> <<"%", "5", "C">>
          [] s[i] = "\n" -> <<"%", "0", "A">>
          [] OTHER -> <<s[i]>>])

MAX_RESULTS == 500

\* folderPath.endsWith("/") ? folderPath : `${folderPath}/`
ListPrefix(folder) == IF EndsWith(folder, SLASH) THEN folder ELSE folder \o SLASH

\* The request of the fetch call: the Admin API URL's parts and the Basic
\* authorization it carries.
ListRequest(folder) ==
    [cloudName |-> getCloudinaryConfig[1].cloudName,
     prefix |-> EncodeURIComponent(ListPrefix(folder)),
     max_results |-> MAX_RESULTS,
     authorization |-> <<getCloudinaryConfig[1].apiKey, getCloudinaryConfig[1].apiSecret>>]

\* response.ok
ResponseOk(status) == status >= 200 /\ status <= 299

\* What a call's continuation ends with, and what it logged.
Outcome(result, log) == [result |-> result, log |-> log]

\* The catch block: console.error, then the error is thrown again.
Caught(e) == Outcome(Thrown(e), <<"error">>)

\* The continuation with the status test dropped: a non-2xx answer is read
\* like a listing.
ListOnResponseIgnoringStatus(resp) ==
    IF resp.body.json = "invalid" THEN Caught(JsonSyntaxError)
    ELSE IF resp.body.json = "null" THEN Caught(NullDataTypeError)
    ELSE IF resp.body.resources.type = "array" /\ resp.body.resources.items # <<>>
    THEN Outcome(Returned(resp.body.resources), <<>>)
    ELSE IF resp.body.resources.type = "other"
    THEN Outcome(Returned(resp.body.resources), <<>>)
    ELSE Outcome(Returned([type |-> "array", items |-> <<>>]), <<"warn">>)

\* The continuation with an empty listing treated as a failure.
ListOnResponseFailingOnEmpty(resp) ==
    IF ~ResponseOk(resp.status) THEN Caught(ListFailed(resp.status, resp.body))
    ELSE IF resp.body.json = "invalid" THEN Caught(JsonSyntaxError)
    ELSE IF resp.body.json = "null" THEN Caught(NullDataTypeError)
    ELSE IF resp.body.resources.type = "array" /\ resp.body.resources.items # <<>>
    THEN Outcome(Returned(resp.body.resources), <<>>)
    ELSE IF resp.body.resources.type = "other"
    THEN Outcome(Returned(resp.body.resources), <<>>)
    ELSE Caught(ListFailed(resp.status, resp.body))

\* The continuation of listCloudinaryImages once fetch has resolved with resp:
\* a non-2xx status throws with the status and the body text; otherwise the
\* body is parsed, data.resources || [] is taken, an empty one is warned
\* about, and it is returned.
ListOnResponse(resp) ==
    IF ~ResponseOk(resp.status) THEN Caught(ListFailed(resp.status, resp.body))
    ELSE IF resp.body.json = "invalid" THEN Caught(JsonSyntaxError)
    ELSE IF resp.body.json = "null" THEN Caught(NullDataTypeError)
    ELSE IF resp.body.resources.type = "array" /\ resp.body.resources.items # <<>>
    THEN Outcome(Returned(resp.body.resources), <<>>)
    ELSE IF resp.body.resources.type = "other"
    THEN Outcome(Returned(resp.body.resources), <<>>)
    ELSE Outcome(Returned([type |-> "array", items |-> <<>>]), <<"warn">>)

\* The continuation once fetch has rejected.
ListOnFetchError == Caught(FetchFailed)

(***************************************************************************)
(* The remote's answers.                                                   *)
(***************************************************************************)
ID_TRIP_A ==
    <<"g","a","l","l","e","r","i","e","s","/","t","r","i","p","/","a",".","j","p","g">>
ID_TRIP_B ==
    <<"g","a","l","l","e","r","i","e","s","/","t","r","i","p","/","b",".","j","p","g">>
ID_TRIP_UPPER_B ==
    <<"g","a","l","l","e","r","i","e","s","/","t","r","i","p","/","B",".","j","p","g">>

Asset(id) == [public_id |-> id]

\* A body is text that is not JSON, the JSON value null, or a JSON object
\* whose "resources" member is missing (or falsy), an array of records, or
\* some other value.
BodyInvalid == [json |-> "invalid"]
BodyNull == [json |-> "null"]
BodyObject(type, items) == [json |-> "object", resources |-> [type |-> type, items |-> items]]

\* A page of a longer listing: the object also carries the cursor of the
\* next page.
BodyPage(items) ==
    [json |-> "object", resources |-> [type |-> "array", items |-> items],
     next_cursor |-> "c1"]

Listings ==
    { <<>>, <<Asset(ID_TRIP_A)>>, <<Asset(ID_TRIP_B), Asset(ID_TRIP_A)>> }

Bodies ==
    {BodyInvalid, BodyNull, BodyObject("missing", <<>>), BodyObject("other", <<>>),
     BodyPage(<<Asset(ID_TRIP_A)>>)}
        \cup {BodyObject("array", l) : l \in Listings}

Statuses == {200, 201, 401, 404, 500}

Responses == {[kind |-> "response", status |-> st, body |-> b] : st \in Statuses, b \in Bodies}

NetworkFailure == [kind |-> "failure", status |-> 0, body |-> [json |-> "none"]]

(***************************************************************************)
(* SpecList: one call of listCloudinaryImages under every configuration.   *)
(***************************************************************************)
ListEnvs ==
    [cloudName : {UNDEFINED, <<>>, DEMO},
     apiKey : {UNDEFINED, <<>>, KEY},
     apiSecret : {UNDEFINED, <<>>, SECRET}]

FOLDER_TRIP == <<"g","a","l","l","e","r","i","e","s","/","t","r","i","p">>

Folders == {FOLDER_TRIP, FOLDER_TRIP \o SLASH}

ListInit ==
    /\ env \in ListEnvs
    /\ PathIdle
    /\ IdxIdle
    /\ UrlIdle
    /\ GalIdle
    /\ MetaIdle
    /\ UploadIdle
    /\ HeicIdle
    /\ listPc = "ready"
    /\ folderPath \in Folders
    /\ requests = <<>>
    /\ response = NoResponse
    /\ listResult = Pending
    /\ consoleLog = <<>>

\* The call up to its first await: the precondition, then the fetch.
ListCall ==
    /\ listPc = "ready"
    /\ IF CredentialsMissing
       THEN /\ listResult' = Thrown(CredentialsRequired)
            /\ listPc' = "done"
            /\ UNCHANGED requests
       ELSE /\ requests' = Append(requests, ListRequest(folderPath))
            /\ listPc' = "fetching"
            /\ UNCHANGED listResult
    /\ UNCHANGED <<env, OutsideList, folderPath, response, consoleLog>>

\* The remote answers; an empty listing is asked for again without the prefix.
ListRespondRetryingEmpty ==
    /\ listPc = "fetching"
    /\ \E resp \in Responses :
        /\ response' = resp
        /\ listResult' = ListOnResponse(resp).result
        /\ consoleLog' = consoleLog \o ListOnResponse(resp).log
        /\ requests' = IF ListOnResponse(resp).log = <<"warn">>
                       THEN Append(requests, ListRequest(<<>>))
                       ELSE requests
    /\ listPc' = "done"
    /\ UNCHANGED <<env, OutsideList, folderPath>>

\* The remote answers and the call runs to its end.
ListRespond ==
    /\ listPc = "fetching"
    /\ \E resp \in Responses :
        /\ response' = resp
        /\ listResult' = ListOnResponse(resp).result
        /\ consoleLog' = consoleLog \o ListOnResponse(resp).log
    /\ listPc' = "done"
    /\ UNCHANGED <<env, OutsideList, folderPath, requests>>

\* The request fails and the call runs to its end.
ListFetchFails ==
    /\ listPc = "fetching"
    /\ response' = NetworkFailure
    /\ listResult' = ListOnFetchError.result
    /\ consoleLog' = consoleLog \o ListOnFetchError.log
    /\ listPc' = "done"
    /\ UNCHANGED <<env, OutsideList, folderPath, requests>>

ListNext == ListCall \/ ListRespond \/ ListFetchFails

SpecList == ListInit /\ [][ListNext]_vars

(***************************************************************************)
(* Claims about the inventory client (checked under SpecList).             *)
(***************************************************************************)
\* C7: without an account identity the call fails with a configuration
\* error, and that error differs from the credentials error it fails with
\* when the identity is present and the key or the secret is absent.
C7_ConfigurationErrorDistinct ==
    (listPc = "done" /\ ~Truthy(env.cloudName)) =>
        /\ listResult.kind = "throw"
        /\ listResult.error = NotConfigured
        /\ listResult.error # CredentialsRequired

\* C8: whenever the API key or the API secret is absent, the call has failed
\* with the credentials error and has issued no request.
C8_NoCredentialsNoRequest ==
    (listPc # "ready" /\ (~Truthy(env.apiKey) \/ ~Truthy(env.apiSecret))) =>
        /\ listPc = "done"
        /\ listResult = Thrown(CredentialsRequired)
        /\ requests = <<>>

\* C8 witness: identity and key present, secret absent, and the call has failed.
C8_Witness ==
    /\ listPc = "done"
    /\ Truthy(env.cloudName) /\ Truthy(env.apiKey) /\ ~Truthy(env.apiSecret)
    /\ listResult.kind = "throw"

\* C9: with credentials present, a non-2xx response makes the call throw an
\* error that carries the status and the body; it never returns a list.
C9_Non2xxThrowsWithStatusAndBody ==
    (listPc = "done" /\ response.kind = "response" /\ ~ResponseOk(response.status)) =>
        /\ listResult.kind = "throw"
        /\ listResult.error.status = <<response.status>>
        /\ listResult.error.text = <<response.body>>

\* C9 witness: a 404 whose body would read as a non-empty listing was thrown.
C9_Witness ==
    /\ listPc = "done"
    /\ response.kind = "response" /\ response.status = 404
    /\ response.body = BodyObject("array", <<Asset(ID_TRIP_A)>>)
    /\ listResult = Thrown(ListFailed(404, response.body))
    /\ Len(requests) = 1

\* A 2xx body that holds no "resources" array.
Malformed(body) ==
    body.json # "object" \/ body.resources.type # "array"

\* C10: a 2xx response without a "resources" array makes the call fail; it is
\* not reported as a successful listing.
C10_MalformedResponseFails ==
    (listPc = "done" /\ response.kind = "response" /\ ResponseOk(response.status)
        /\ Malformed(response.body)) =>
        listResult.kind = "throw"

\* The account identity, the key and the secret are all set.
FullyConfigured == Truthy(env.cloudName) /\ Truthy(env.apiKey) /\ Truthy(env.apiSecret)

DEFAULT_WIDTH == 800
DEFAULT_HEIGHT == 600

\* The value null is <<>>, an object {width, height} is <<[width, height]>>.
NULL == <<>>
Dimensions(w, h) == <<[width |-> w, height |-> h]>>

\* The request of the fetch call: the resource URL's parts (the public id goes
\* into the path as it is) and the Basic authorization.
MetaRequest(id) ==
    [cloudName |-> getCloudinaryConfig[1].cloudName,
     publicId |-> id,
     authorization |-> <<getCloudinaryConfig[1].apiKey, getCloudinaryConfig[1].apiSecret>>]

\* A resource body: an object whose width and height are numbers or missing.
BodyResource(w, h) == [json |-> "object", width |-> w, height |-> h]

\* data.width || 800, data.height || 600: a missing or zero member gives the
\* default.
OrDefault(n, default) == IF n = <<>> \/ n = <<0>> THEN default ELSE n[1]

\* The continuation that lets a failure through to the caller.
MetaOnResponseThrowing(resp) ==
    IF ~ResponseOk(resp.status) THEN Thrown(ListFailed(resp.status, resp.body))
    ELSE IF resp.body.json = "invalid" THEN Thrown(JsonSyntaxError)
    ELSE IF resp.body.json = "null" THEN Thrown(NullDataTypeError)
    ELSE Returned(Dimensions(OrDefault(resp.body.width, DEFAULT_WIDTH),
                             OrDefault(resp.body.height, DEFAULT_HEIGHT)))

\* The continuation of getCloudinaryImageMetadata once fetch has resolved with
\* resp: a non-2xx status returns null; a body that is not JSON, or null,
\* throws inside the try block, whose catch returns null; otherwise the
\* dimensions are returned.
MetaOnResponse(resp) ==
    IF ~ResponseOk(resp.status) THEN Returned(NULL)
    ELSE IF resp.body.json = "invalid" THEN Returned(NULL)
    ELSE IF resp.body.json = "null" THEN Returned(NULL)
    ELSE Returned(Dimensions(OrDefault(resp.body.width, DEFAULT_WIDTH),
                             OrDefault(resp.body.height, DEFAULT_HEIGHT)))

\* The continuation once fetch has rejected: the catch block returns null.
MetaOnFetchError == Returned(NULL)

(***************************************************************************)
(* SpecMeta: one call of getCloudinaryImageMetadata under every            *)
(* configuration.                                                          *)
(***************************************************************************)
MetaIds == {ID_TRIP_A, <<"a">>}

Widths == {<<>>, <<0>>, <<1200>>}
Heights == {<<>>, <<900>>}

MetaBodies == {BodyInvalid, BodyNull} \cup {BodyResource(w, h) : w \in Widths, h \in Heights}

MetaResponses ==
    {[kind |-> "response", status |-> st, body |-> b] : st \in Statuses, b \in MetaBodies}

MetaInit ==
    /\ env \in ListEnvs
    /\ PathIdle
    /\ IdxIdle
    /\ UrlIdle
    /\ ListIdle
    /\ GalIdle
    /\ UploadIdle
    /\ HeicIdle
    /\ metaPc = "ready"
    /\ metaId \in MetaIds
    /\ metaRequests = <<>>
    /\ metaResponse = NoResponse
    /\ metaResult = Pending

\* The call up to its first await: without a configuration, a key or a secret
\* it returns null; otherwise it issues the request.
MetaCall ==
    /\ metaPc = "ready"
    /\ IF CredentialsMissing
       THEN /\ metaResult' = Returned(NULL)
            /\ metaPc' = "done"
            /\ UNCHANGED metaRequests
       ELSE /\ metaRequests' = Append(metaRequests, MetaRequest(metaId))
            /\ metaPc' = "fetching"
            /\ UNCHANGED metaResult
    /\ UNCHANGED <<env, OutsideMeta, metaId, metaResponse>>

\* The remote answers and the call runs to its end.
MetaRespond ==
    /\ metaPc = "fetching"
    /\ \E resp \in MetaResponses :
        /\ metaResponse' = resp
        /\ metaResult' = MetaOnResponse(resp)
    /\ metaPc' = "done"
    /\ UNCHANGED <<env, OutsideMeta, metaId, metaRequests>>

\* The request fails and the call runs to its end.
MetaFetchFails ==
    /\ metaPc = "fetching"
    /\ metaResponse' = NetworkFailure
    /\ metaResult' = MetaOnFetchError
    /\ metaPc' = "done"
    /\ UNCHANGED <<env, OutsideMeta, metaId, metaRequests>>

MetaNext == MetaCall \/ MetaRespond \/ MetaFetchFails

SpecMeta == MetaInit /\ [][MetaNext]_vars

(***************************************************************************)
(* Metadata resolver: getGalleries.                                        *)
(***************************************************************************)
\* Most gallery entries of one getGalleries call.
MaxEntries == 2
\* Longest inventory listing of one gallery.
MaxListing == 2
\* Most gallery entries of the fan-out.
MaxFanOut == 6

INDEX_SUFFIX == <<"/","i","n","d","e","x">>
HTTP == <<"h","t","t","p">>

\* entry.id.replace(/\/index$/, "")
SlugOf(id) ==
    IF EndsWith(id, INDEX_SUFFIX) THEN SubSeq(id, 1, Len(id) - Len(INDEX_SUFFIX)) ELSE id

\* The position of c in the sequence order.
Rank(order, c) == CHOOSE i \in 1..Len(order) : order[i] = c

UPPERCASE ==
    <<"A","B","C","D","E","F","G","H","I","J","K","L","M",
      "N","O","P","Q","R","S","T","U","V","W","X","Y","Z">>
LOWERCASE ==
    <<"a","b","c","d","e","f","g","h","i","j","k","l","m",
      "n","o","p","q","r","s","t","u","v","w","x","y","z">>

IsUpper(c) == \E i \in 1..Len(UPPERCASE) : UPPERCASE[i] = c
ToLower(c) == IF IsUpper(c) THEN LOWERCASE[Rank(UPPERCASE, c)] ELSE c

\* The primary order of the collation localeCompare uses: punctuation, then
\* digits, then letters, a letter's case not counting.
COLLATION_ORDER ==
    <<"_", "-", ".", "/", "0","1","2","3","4","5","6","7","8","9">> \o LOWERCASE

\* First pass of the collation: the first position where the primary weights
\* differ decides; a proper prefix comes first.
RECURSIVE PrimaryCompare(_, _)
PrimaryCompare(a, b) ==
    IF a = <<>> /\ b = <<>> THEN 0
    ELSE IF a = <<>> THEN -1
    ELSE IF b = <<>> THEN 1
    ELSE LET ra == Rank(COLLATION_ORDER, ToLower(Head(a)))
             rb == Rank(COLLATION_ORDER, ToLower(Head(b)))
         IN  IF ra < rb THEN -1
             ELSE IF ra > rb THEN 1
             ELSE PrimaryCompare(Tail(a), Tail(b))

\* Last pass, for strings equal but for case: at the first difference the
\* lowercase letter comes first.
RECURSIVE CaseCompare(_, _)
CaseCompare(a, b) ==
    IF a = <<>> \/ b = <<>> THEN 0
    ELSE IF Head(a) = Head(b) THEN CaseCompare(Tail(a), Tail(b))
    ELSE IF IsUpper(Head(b)) THEN -1
    ELSE 1

\* a.localeCompare(b)
LocaleCompare(a, b) ==
    IF PrimaryCompare(a, b) # 0 THEN PrimaryCompare(a, b) ELSE CaseCompare(a, b)

\* Array.prototype.sort is stable: x goes after the elements that do not
\* compare greater than it.
RECURSIVE InsertByPublicId(_, _)
InsertByPublicId(sorted, x) ==
    IF sorted = <<>> THEN <<x>>
    ELSE IF LocaleCompare(Head(sorted).public_id, x.public_id) > 0 THEN <<x>> \o sorted
    ELSE <<Head(sorted)>> \o InsertByPublicId(Tail(sorted), x)

RECURSIVE SortedByPublicId(_)
SortedByPublicId(images) ==
    IF images = <<>> THEN <<>>
    ELSE InsertByPublicId(SortedByPublicId(SubSeq(images, 1, Len(images) - 1)),
                          images[Len(images)])

\* The listing left in the order the inventory returned it.
Unsorted(images) == images

\* cloudinaryImages.sort((a, b) => a.public_id.localeCompare(b.public_id))
SortByPublicId(images) == SortedByPublicId(images)

\* cloudinaryImages.length: <<n>> for an array, <<>> (undefined) otherwise
\* A length that an empty listing does not have.
LengthUnlessEmpty(resources) ==
    IF resources.type = "array" /\ resources.items # <<>> THEN <<Len(resources.items)>> ELSE <<>>

LengthOf(resources) == IF resources.type = "array" THEN <<Len(resources.items)>> ELSE <<>>

\* The callback of galleryEntries.map after its listing resolved with
\* resources: the GalleryInfo it returns (title, description, tags and
\* location are copied from the entry and left out here).
GalleryInfoOf(entry, resources) ==
    LET slug == SlugOf(entry.id)
        imageCount == LengthOf(resources)
        sorted == SortByPublicId(resources.items)
        firstImageUrl ==
            IF imageCount # <<>> /\ imageCount[1] > 0
            THEN buildCloudinaryThumbnailUrl(sorted[1].public_id, <<600>>, <<400>>).value
            ELSE <<>>
        declared == IF Truthy(entry.data.image) THEN entry.data.image ELSE <<>>
        finalImagePath ==
            IF declared # <<>> /\ ~StartsWith(declared, HTTP)
            THEN buildCloudinaryThumbnailUrl(
                     localPathToCloudinaryPublicId(GALLERIES_SLASH \o slug \o SLASH \o declared),
                     <<600>>, <<400>>).value
            ELSE IF declared = <<>> THEN firstImageUrl
            ELSE declared
    IN  [slug |-> slug, name |-> slug, imageCount |-> imageCount,
         published |-> entry.data.published, image |-> finalImagePath]

\* results.sort((a, b) => b.published.getTime() - a.published.getTime())
RECURSIVE InsertByPublished(_, _)
InsertByPublished(sorted, x) ==
    IF sorted = <<>> THEN <<x>>
    ELSE IF x.published - Head(sorted).published > 0 THEN <<x>> \o sorted
    ELSE <<Head(sorted)>> \o InsertByPublished(Tail(sorted), x)

\* A sort that puts a later element before the earlier ones of its date.
RECURSIVE SortTiesReversed(_)
SortTiesReversed(results) ==
    IF results = <<>> THEN <<>>
    ELSE LET rest == SortTiesReversed(SubSeq(results, 1, Len(results) - 1))
             x == results[Len(results)]
             before == {k \in 1..Len(rest) : rest[k].published > x.published}
         IN  SubSeq(rest, 1, Cardinality(before)) \o <<x>>
                 \o SubSeq(rest, Cardinality(before) + 1, Len(rest))

RECURSIVE SortByPublished(_)
SortByPublished(results) ==
    IF results = <<>> THEN <<>>
    ELSE InsertByPublished(SortByPublished(SubSeq(results, 1, Len(results) - 1)),
                           results[Len(results)])

NoView == [slug |-> <<>>, name |-> <<>>, imageCount |-> <<>>, published |-> 0, image |-> <<>>]

\* One entry's callback: awaiting its listing, fulfilled with a view or
\* rejected with an error; listing is what the remote answered.
CallFetching == [pc |-> "fetching", listing |-> NoResponse, view |-> NoView, error |-> NoError]
CallRejected(resp, e) == [pc |-> "rejected", listing |-> resp, view |-> NoView, error |-> e]
CallFulfilled(resp, v) == [pc |-> "fulfilled", listing |-> resp, view |-> v, error |-> NoError]

\* The callback's continuation once its listing call has ended with outcome.
CallAfterListing(entry, resp, outcome) ==
    IF outcome.result.kind = "throw" THEN CallRejected(resp, outcome.result.error)
    ELSE CallFulfilled(resp, GalleryInfoOf(entry, outcome.result.value))

\* await Promise.all(galleryPromises), the sort and the return: nothing while a
\* callback is pending and none has been rejected.
AllFulfilled(cs) == \A i \in 1..Len(cs) : cs[i].pc = "fulfilled"

\* The return without the sort.
GalleriesReturnUnsorted(cs) == Returned([i \in 1..Len(cs) |-> cs[i].view])

GalleriesReturn(cs) == Returned(SortByPublished([i \in 1..Len(cs) |-> cs[i].view]))

(***************************************************************************)
(* SpecGalleries: one getGalleries call over up to MaxEntries entries.     *)
(***************************************************************************)
COVER_JPG == <<"c","o","v","e","r",".","j","p","g">>
HTTP_COVER_JPG == <<"h","t","t","p","c","o","v","e","r",".","j","p","g">>
REMOTE_COVER ==
    <<"h","t","t","p","s",":","/","/","c","d","n",".","e","x","a","m","p","l","e","/",
      "c",".","j","p","g">>

\* The image a gallery's metadata declares; "" is the schema's default.
Images == {<<>>, COVER_JPG, REMOTE_COVER, HTTP_COVER_JPG}

EntryIds == <<<<"t","r","i","p">>, <<"a","l","p","s","/","i","n","d","e","x">>>>

PublishDates == {1, 2}

\* The first entry ranges over every declared image; the further ones, which
\* are there for the fan-out, declare none.
EntrySeqs ==
    UNION {{c \in [1..n -> Images \X PublishDates] : \A i \in 2..n : c[i][1] = <<>>} :
              n \in 0..MaxEntries}

\* The collection's ids are distinct: the named ones, then g3, g4, ...
EntryId(i) == IF i <= Len(EntryIds) THEN EntryIds[i] ELSE <<"g">> \o NumberToString(i)

EntriesOf(choice) ==
    [i \in 1..Len(choice) |->
        [id |-> EntryId(i),
         data |-> [image |-> choice[i][1], published |-> choice[i][2]]]]

AssetNames == {<<"a",".","j","p","g">>, <<"b",".","j","p","g">>, <<"B",".","j","p","g">>}

RECURSIVE NameSeqs(_)
NameSeqs(n) ==
    IF n = 0 THEN {<<>>}
    ELSE LET shorter == NameSeqs(n - 1)
         IN  shorter \cup
             {Append(ns, x) : ns \in {y \in shorter : Len(y) = n - 1}, x \in AssetNames}

Distinct(ns) == \A i, j \in 1..Len(ns) : i # j => ns[i] # ns[j]

\* The listings the remote can answer for a folder: at most n distinct assets
\* of that folder, in any order.
ListingsOf(folder, n) ==
    {[i \in 1..Len(ns) |-> Asset(folder \o SLASH \o ns[i])] :
        ns \in {x \in NameSeqs(n) : Distinct(x)}}

\* The remote's answers to entry i's request: a listing, a body without
\* "resources", or an error status. The first entry's gallery holds up to
\* MaxListing assets, the further ones at most one. With more than MaxEntries
\* entries every gallery holds one asset, and the answer is its listing or an
\* error status.
GalleryResponses(i, folder) ==
    IF Len(entries) > MaxEntries
    THEN {[kind |-> "response", status |-> 200,
           body |-> BodyObject("array", <<Asset(folder \o SLASH \o <<"a",".","j","p","g">>)>>)],
          [kind |-> "response", status |-> 404, body |-> BodyObject("missing", <<>>)]}
    ELSE {[kind |-> "response", status |-> 200, body |-> BodyObject("array", l)] :
              l \in ListingsOf(folder, IF i = 1 THEN MaxListing ELSE 1)}
         \cup {[kind |-> "response", status |-> 200, body |-> BodyObject("missing", <<>>)],
               [kind |-> "response", status |-> 404, body |-> BodyObject("missing", <<>>)]}

GalEnvs ==
    { [cloudName |-> DEMO, apiKey |-> KEY, apiSecret |-> SECRET],
      [cloudName |-> DEMO, apiKey |-> UNDEFINED, apiSecret |-> UNDEFINED] }

FolderOf(entry) == GALLERIES_SLASH \o SlugOf(entry.id)

GalInit ==
    /\ env \in GalEnvs
    /\ PathIdle
    /\ IdxIdle
    /\ UrlIdle
    /\ ListIdle
    /\ MetaIdle
    /\ UploadIdle
    /\ HeicIdle
    /\ galPc = "ready"
    /\ \E choice \in EntrySeqs : entries = EntriesOf(choice)
    /\ calls = <<>>
    /\ galRequests = <<>>
    /\ galResult = Pending

\* getCollection has resolved and map runs every callback up to its await:
\* each one calls listCloudinaryImages, which throws at once without
\* credentials and otherwise issues its request.
GalStart ==
    /\ galPc = "ready"
    /\ IF CredentialsMissing
       THEN /\ calls' = [i \in 1..Len(entries) |-> CallRejected(NoResponse, CredentialsRequired)]
            /\ galRequests' = <<>>
            /\ galPc' = "done"
            /\ galResult' = IF entries = <<>> THEN GalleriesReturn(<<>>)
                            ELSE Thrown(CredentialsRequired)
       ELSE /\ calls' = [i \in 1..Len(entries) |-> CallFetching]
            /\ galRequests' = [i \in 1..Len(entries) |-> <<i, ListRequest(FolderOf(entries[i]))>>]
            /\ galPc' = IF entries = <<>> THEN "done" ELSE "running"
            /\ galResult' = IF entries = <<>> THEN GalleriesReturn(<<>>) ELSE Pending
    /\ UNCHANGED <<env, OutsideGal, entries>>

\* Entry i's callback ends with call c. Promise.all settles with it when it is
\* the first rejection or the last fulfilment; getGalleries then throws, or
\* sorts and returns.
CallEnds(i, c) ==
    /\ calls' = [calls EXCEPT ![i] = c]
    /\ IF galPc = "running" /\ c.pc = "rejected"
       THEN galPc' = "done" /\ galResult' = Thrown(c.error)
       ELSE IF galPc = "running" /\ AllFulfilled([calls EXCEPT ![i] = c])
       THEN galPc' = "done" /\ galResult' = GalleriesReturn([calls EXCEPT ![i] = c])
       ELSE UNCHANGED <<galPc, galResult>>
    /\ UNCHANGED <<env, OutsideGal, entries, galRequests>>

\* The remote answers entry i's request.
GalRespond(i) ==
    /\ galPc # "ready"
    /\ calls[i].pc = "fetching"
    /\ \E resp \in GalleryResponses(i, FolderOf(entries[i])) :
        CallEnds(i, CallAfterListing(entries[i], resp, ListOnResponse(resp)))

\* Entry i's request fails.
GalFetchFails(i) ==
    /\ galPc # "ready"
    /\ calls[i].pc = "fetching"
    /\ CallEnds(i, CallAfterListing(entries[i], NetworkFailure, ListOnFetchError))

GalNext ==
    \/ GalStart
    \/ \E i \in 1..Len(entries) : GalRespond(i)
    \/ \E i \in 1..Len(entries) : GalFetchFails(i)

SpecGalleries == GalInit /\ [][GalNext]_vars

(***************************************************************************)
(* SpecFanOut: one getGalleries call, configured, over up to MaxFanOut     *)
(* entries that declare no image and share a publish date.                 *)
(***************************************************************************)
FanOutEntrySeqs == UNION {[1..n -> {<<<<>>, 1>>}] : n \in 0..MaxFanOut}

FanOutInit ==
    /\ env = [cloudName |-> DEMO, apiKey |-> KEY, apiSecret |-> SECRET]
    /\ PathIdle
    /\ IdxIdle
    /\ UrlIdle
    /\ ListIdle
    /\ MetaIdle
    /\ UploadIdle
    /\ HeicIdle
    /\ galPc = "ready"
    /\ \E choice \in FanOutEntrySeqs : entries = EntriesOf(choice)
    /\ calls = <<>>
    /\ galRequests = <<>>
    /\ galResult = Pending

SpecFanOut == FanOutInit /\ [][GalNext]_vars

\* The inventory requests that have been issued and not yet answered.
InFlight == {i \in 1..Len(calls) : calls[i].pc = "fetching"}

\* C14: at no moment are more than 5 inventory requests outstanding.
C14_AtMostFiveInFlight == Cardinality(InFlight) <= 5

\* What the code does instead: once the callbacks have started, a request is
\* outstanding for every entry whose callback has not ended, and right after
\* the start that is every entry.
C14_AllIssuedAtOnce ==
    /\ [](galPc # "ready" => Len(galRequests) = Len(entries))
    /\ [][galPc = "ready" => Cardinality(InFlight') = Len(entries)]_vars

(***************************************************************************)
(* Claims about the cover URL (checked under SpecGalleries).               *)
(***************************************************************************)
Fulfilled == {i \in 1..Len(calls) : calls[i].pc = "fulfilled"}

\* The identifiers of the listing entry i received, in the order received.
ListedIds(i) ==
    [k \in 1..Len(calls[i].listing.body.resources.items) |->
        calls[i].listing.body.resources.items[k].public_id]

IdSet(ids) == {ids[k] : k \in 1..Len(ids)}

Thumbnail600x400(id) == buildCloudinaryThumbnailUrl(id, <<600>>, <<400>>).value

\* An absolute URL: a scheme, then "//".
IsAbsoluteUrl(s) ==
    \/ StartsWith(s, <<"h","t","t","p",":","/","/">>)
    \/ StartsWith(s, <<"h","t","t","p","s",":","/","/">>)

\* The identifier that no other one precedes in the collation's order.
CollationFirst(S) == CHOOSE x \in S : \A y \in S : LocaleCompare(x, y) <= 0

\* The code units of the characters the identifiers are made of, ascending.
CODE_UNIT_ORDER ==
    <<"-", ".", "/", "0","1","2","3","4","5","6","7","8","9">> \o UPPERCASE
        \o <<"_">> \o LOWERCASE

\* a < b, compared code unit by code unit (a proper prefix comes first).
RECURSIVE LexLess(_, _)
LexLess(a, b) ==
    IF b = <<>> THEN FALSE
    ELSE IF a = <<>> THEN TRUE
    ELSE IF Head(a) = Head(b) THEN LexLess(Tail(a), Tail(b))
    ELSE Rank(CODE_UNIT_ORDER, Head(a)) < Rank(CODE_UNIT_ORDER, Head(b))

LexicographicallySmallest(S) == CHOOSE x \in S : \A y \in S \ {x} : LexLess(x, y)

\* C2: the cover URL of a gallery is (1) its declared image unchanged when
\* that is an absolute URL, (2) otherwise, for a declared non-empty image f,
\* the 600x400 thumbnail URL of localPathToCloudinaryPublicId("galleries/s/f"),
\* (3) otherwise the thumbnail URL of the first listed asset, (4) otherwise "".
C2_CoverPrecedence ==
    \A i \in Fulfilled :
        LET declared == entries[i].data.image
            slug == SlugOf(entries[i].id)
            cover == calls[i].view.image
        IN  IF IsAbsoluteUrl(declared) THEN cover = declared
            ELSE IF declared # <<>>
            THEN cover = Thumbnail600x400(
                     localPathToCloudinaryPublicId(GALLERIES_SLASH \o slug \o SLASH \o declared))
            ELSE IF Len(ListedIds(i)) > 0
            THEN cover = Thumbnail600x400(CollationFirst(IdSet(ListedIds(i))))
            ELSE cover = <<>>

\* What the code does instead: the declared image is returned unchanged
\* exactly when it starts with "http", whether or not it is a URL.
C2_CoverPrecedenceByHttpPrefix ==
    \A i \in Fulfilled :
        LET declared == entries[i].data.image
            slug == SlugOf(entries[i].id)
            cover == calls[i].view.image
        IN  IF StartsWith(declared, HTTP) THEN cover = declared
            ELSE IF declared # <<>>
            THEN cover = Thumbnail600x400(
                     localPathToCloudinaryPublicId(GALLERIES_SLASH \o slug \o SLASH \o declared))
            ELSE IF Len(ListedIds(i)) > 0
            THEN cover = Thumbnail600x400(CollationFirst(IdSet(ListedIds(i))))
            ELSE cover = <<>>

\* C3 as written: without a declared image and with a non-empty listing, the
\* cover is the 600x400 thumbnail URL of the lexicographically smallest
\* identifier of the listing.
C3_CoverOfLexicographicallySmallest ==
    \A i \in Fulfilled :
        (entries[i].data.image = <<>> /\ Len(ListedIds(i)) > 0) =>
            calls[i].view.image =
                Thumbnail600x400(LexicographicallySmallest(IdSet(ListedIds(i))))

\* C3 amended: without a declared image and with a non-empty listing, the
\* cover is the 600x400 thumbnail URL of the identifier that comes first in
\* localeCompare's order (letters compared without their case first), in
\* whatever order the inventory returned the records.
C3_CoverOfCollationFirst ==
    \A i \in Fulfilled :
        (entries[i].data.image = <<>> /\ Len(ListedIds(i)) > 0) =>
            calls[i].view.image = Thumbnail600x400(CollationFirst(IdSet(ListedIds(i))))

\* C3 witness: the inventory returned b.jpg before a.jpg and the cover is
\* a.jpg's thumbnail.
C3_Witness ==
    \E i \in Fulfilled :
        /\ entries[i].data.image = <<>>
        /\ ListedIds(i) = <<ID_TRIP_B, ID_TRIP_A>>
        /\ calls[i].view.image = Thumbnail600x400(ID_TRIP_A)
        /\ calls[i].view.imageCount = <<2>>

(***************************************************************************)
(* Claims about the returned list (checked under SpecGalleries).           *)
(***************************************************************************)
\* The view of entry i as its metadata and the remote's answer determine it.
ViewFor(i) == GalleryInfoOf(entries[i], ListOnResponse(calls[i].listing).result.value)

\* Where entry i belongs in the result: after the entries published later and
\* after the earlier entries of its own date.
PlaceOf(i) ==
    1 + Cardinality({j \in 1..Len(entries) :
            \/ entries[j].data.published > entries[i].data.published
            \/ entries[j].data.published = entries[i].data.published /\ j < i})

\* C15: the returned list is a function of the entries and of the remote's
\* answers alone, whatever the order in which the requests completed: entry
\* i's view stands at the place its date and its index give it.
C15_ResultIndependentOfCompletionOrder ==
    (galPc = "done" /\ galResult.kind = "return") =>
        /\ Len(galResult.value) = Len(entries)
        /\ \A i \in 1..Len(entries) : galResult.value[PlaceOf(i)] = ViewFor(i)

\* C15 witness: two galleries of one publish date, answered differently, are
\* returned in the order of the entries.
C15_Witness ==
    /\ galPc = "done" /\ galResult.kind = "return" /\ Len(entries) = 2
    /\ entries[1].data.published = entries[2].data.published
    /\ calls[1].listing # calls[2].listing
    /\ galResult.value[1].slug = SlugOf(entries[1].id)
    /\ galResult.value[2].slug = SlugOf(entries[2].id)

\* C16: the result holds exactly one view per entry, and no view is followed
\* by one published later.
C16_OneViewPerEntryNewestFirst ==
    (galPc = "done" /\ galResult.kind = "return") =>
        /\ Len(galResult.value) = Len(entries)
        /\ \A i \in 1..Len(entries) :
               Cardinality({k \in 1..Len(galResult.value) :
                   galResult.value[k].slug = SlugOf(entries[i].id)}) = 1
        /\ \A k \in 1..(Len(galResult.value) - 1) :
               galResult.value[k].published >= galResult.value[k + 1].published

\* C16 witness: the entry published later came second in the collection and
\* is returned first.
C16_Witness ==
    /\ galPc = "done" /\ galResult.kind = "return" /\ Len(entries) = 2
    /\ entries[1].data.published < entries[2].data.published
    /\ galResult.value[1].slug = SlugOf(entries[2].id)
    /\ galResult.value[2].slug = SlugOf(entries[1].id)

\* Entry i declares no image and its listing was answered 2xx with no records.
EmptyGallery(i) ==
    /\ entries[i].data.image = <<>>
    /\ calls[i].listing.kind = "response" /\ ResponseOk(calls[i].listing.status)
    /\ calls[i].listing.body = BodyObject("array", <<>>)

\* C17: a gallery without a declared image whose listing has no records gets
\* a view with cover "" and asset count 0; its callback does not fail, and
\* when it is the only gallery, getGalleries returns that view.
C17_EmptyGalleryView ==
    \A i \in 1..Len(calls) :
        EmptyGallery(i) =>
            /\ calls[i].pc = "fulfilled"
            /\ calls[i].view.image = <<>>
            /\ calls[i].view.imageCount = <<0>>
            /\ Len(entries) = 1 => galResult = Returned(<<calls[i].view>>)

\* C17 witness: getGalleries has returned the view of its one, empty gallery.
C17_Witness ==
    /\ galPc = "done" /\ Len(entries) = 1 /\ EmptyGallery(1)
    /\ galResult.kind = "return"
    /\ galResult.value[1].image = <<>> /\ galResult.value[1].imageCount = <<0>>

(***************************************************************************)
(* SpecLayer: one call of any of the three operations that talk to the     *)
(* remote: listCloudinaryImages, getCloudinaryImageMetadata, getGalleries. *)
(***************************************************************************)
LayerInit == ListInit \/ MetaInit \/ GalInit

LayerNext == ListNext \/ MetaNext \/ GalNext

SpecLayer == LayerInit /\ [][LayerNext]_vars

\* A call that got the answer resp under the current environment has met one
\* of the failures: no account identity, no credentials, a network failure, a
\* non-2xx response.
FailureMet(resp) ==
    \/ ~FullyConfigured
    \/ resp.kind = "failure"
    \/ resp.kind = "response" /\ ~ResponseOk(resp.status)

\* listCloudinaryImages has ended after a failure only by throwing.
ListFailureSurfaces ==
    (listPc = "done" /\ FailureMet(response)) => listResult.kind = "throw"

\* getGalleries has thrown, and returned no list, as soon as one gallery's
\* listing has failed.
GalleriesFailureSurfaces ==
    (\E i \in 1..Len(calls) : calls[i].pc = "rejected" /\ FailureMet(calls[i].listing)) =>
        galPc = "done" /\ galResult.kind = "throw"

\* C13 as written: every failure surfaces as an error to the caller of
\* listCloudinaryImages, of getCloudinaryImageMetadata and of getGalleries.
C13_EveryFailureSurfaces ==
    /\ ListFailureSurfaces
    /\ GalleriesFailureSurfaces
    /\ (metaPc = "done" /\ FailureMet(metaResponse)) => metaResult.kind = "throw"

\* C13 amended: every failure surfaces as an error to the caller of
\* listCloudinaryImages and of getGalleries, whereas
\* getCloudinaryImageMetadata never throws: after any of the failures, and
\* after a body it cannot read, it has returned null.
C13_FailuresSurfaceExceptMetadata ==
    /\ ListFailureSurfaces
    /\ GalleriesFailureSurfaces
    /\ metaPc = "done" => metaResult.kind = "return"
    /\ (metaPc = "done" /\ (FailureMet(metaResponse)
                              \/ metaResponse.body.json \in {"invalid", "null"})) =>
           metaResult = Returned(NULL)

\* C13 witness: one gallery's listing was answered with records, another's
\* with a 404, and getGalleries has thrown the listing's error.
C13_Witness ==
    /\ galPc = "done" /\ Len(calls) = 2
    /\ calls[1].pc = "fulfilled" /\ calls[1].view.imageCount = <<1>>
    /\ calls[2].pc = "rejected" /\ calls[2].listing.status = 404
    /\ galResult = Thrown(ListFailed(404, calls[2].listing.body))

(***************************************************************************)
(* Batch upload: uploadImages of scripts/upload-to-cloudinary.             *)
(***************************************************************************)
\* Most image files of one run.
MaxFiles == 6

batchSize == 5

\* The image files in the order getImageFiles finds them: two galleries, a
\* HEIC next to its JPEG, and a file of a subdirectory named like one of the
\* gallery's own.
FoundFiles ==
    << <<"a","l","p","s","/","c",".","j","p","g">>,
       <<"a","l","p","s","/","d",".","p","n","g">>,
       <<"t","r","i","p","/","a",".","h","e","i","c">>,
       <<"t","r","i","p","/","a",".","j","p","g">>,
       <<"t","r","i","p","/","b",".","j","p","g">>,
       <<"t","r","i","p","/","d","a","y","1","/","b",".","j","p","g">>,
       <<"t","r","i","p","/","e",".","j","p","g">> >>

\* The k-th file found: the listed ones, then trip/f8.jpg, trip/f9.jpg, ...
FoundFile(k) ==
    GALLERIES_DIR \o SLASH \o
        (IF k <= Len(FoundFiles) THEN FoundFiles[k]
         ELSE <<"t","r","i","p","/","f">> \o NumberToString(k) \o <<".","j","p","g">>)

\* fullPublicId of the task of file k
FullPublicId(k) == RegisteredPublicId(imageFiles[k], GALLERIES_DIR)

\* What is on the remote before the run.
ALPS_D == <<"g","a","l","l","e","r","i","e","s","/","a","l","p","s","/","d">>

Min(a, b) == IF a <= b THEN a ELSE b

\* A batch that takes every remaining file.
RestOfFiles(i) == (i + 1)..Len(imageFiles)

\* imageFiles.slice(i, i + batchSize), as indices
Batch(i) == (i + 1)..Min(i + batchSize, Len(imageFiles))

Settled(t) == t \in {"uploaded", "skipped", "failed"}

\* Promise.all of the batch that starts at i has resolved for the tasks ts:
\* the callbacks catch every error, so it waits for all of them.
BatchSettled(ts, i) == \A k \in Batch(i) : Settled(ts[k])

\* Where the loop stands once the batch at i has resolved: in the delay
\* before the next batch, or at the summary.
AfterBatch(i) == IF i + batchSize < Len(imageFiles) THEN "delay" ELSE "done"

UploadInit ==
    /\ env = NoEnv
    /\ PathIdle
    /\ IdxIdle
    /\ UrlIdle
    /\ ListIdle
    /\ GalIdle
    /\ MetaIdle
    /\ HeicIdle
    /\ upPc = "ready"
    /\ \E n \in 0..MaxFiles : imageFiles = [k \in 1..n |-> FoundFile(k)]
    /\ missingFiles \in {{}, {1} \cap DOMAIN imageFiles}
    /\ tasks = [k \in DOMAIN imageFiles |-> "waiting"]
    /\ batchStart = 0
    /\ cloudIds = {ALPS_D}
    /\ uploaded = 0 /\ skipped = 0 /\ failed = 0
    /\ uploadCalls = {}

\* batch.map runs every callback of the batch at i up to its first await: a
\* file that is gone is counted as failed, for the others the existence check
\* is issued.
StartBatch(i) ==
    LET ts == [k \in DOMAIN tasks |->
                  IF k \in Batch(i)
                  THEN (IF k \in missingFiles THEN "failed" ELSE "checking")
                  ELSE tasks[k]]
    IN  /\ tasks' = ts
        /\ failed' = failed + Cardinality(Batch(i) \cap missingFiles)
        /\ batchStart' = i
        /\ upPc' = IF BatchSettled(ts, i) THEN AfterBatch(i) ELSE "batch"

\* uploadImages up to the first batch (the folders are looked up first, which
\* changes nothing and cannot fail); without files it returns at once.
UploadStart ==
    /\ upPc = "ready"
    /\ IF Len(imageFiles) = 0
       THEN upPc' = "done" /\ UNCHANGED <<tasks, failed, batchStart>>
       ELSE StartBatch(0)
    /\ UNCHANGED <<OutsideUpload, imageFiles, missingFiles, cloudIds, uploaded, skipped,
                   uploadCalls>>

\* The delay between two batches is over: the next batch starts.
DelayEnds ==
    /\ upPc = "delay"
    /\ StartBatch(batchStart + batchSize)
    /\ UNCHANGED <<OutsideUpload, imageFiles, missingFiles, cloudIds, uploaded, skipped,
                   uploadCalls>>

\* Task k has settled as t: Promise.all resolves with the last one.
Settle(k, t) ==
    /\ tasks' = [tasks EXCEPT ![k] = t]
    /\ upPc' = IF BatchSettled([tasks EXCEPT ![k] = t], batchStart)
               THEN AfterBatch(batchStart) ELSE upPc

\* The remote finds the id of task k and the task skips the file.
CheckFindsIt(k) ==
    /\ tasks[k] = "checking"
    /\ FullPublicId(k) \in cloudIds
    /\ Settle(k, "skipped")
    /\ skipped' = skipped + 1
    /\ UNCHANGED <<OutsideUpload, imageFiles, missingFiles, batchStart, cloudIds, uploaded,
                   failed, uploadCalls>>

\* The remote does not find the id of task k: its 404 is on its way.
CheckFindsNothing(k) ==
    /\ tasks[k] = "checking"
    /\ FullPublicId(k) \notin cloudIds
    /\ tasks' = [tasks EXCEPT ![k] = "absent"]
    /\ UNCHANGED <<OutsideUpload, upPc, imageFiles, missingFiles, batchStart, cloudIds,
                   uploaded, skipped, failed, uploadCalls>>

\* The check of task k fails otherwise: imageExists throws and the task
\* counts the file as failed without counting it.
CheckFailsUncounted(k) ==
    /\ tasks[k] = "checking"
    /\ Settle(k, "failed")
    /\ UNCHANGED <<OutsideUpload, imageFiles, missingFiles, batchStart, cloudIds, uploaded,
                   skipped, failed, uploadCalls>>

\* The check of task k fails otherwise: imageExists throws and the task
\* counts the file as failed.
CheckFails(k) ==
    /\ tasks[k] = "checking"
    /\ Settle(k, "failed")
    /\ failed' = failed + 1
    /\ UNCHANGED <<OutsideUpload, imageFiles, missingFiles, batchStart, cloudIds, uploaded,
                   skipped, uploadCalls>>

\* The 404 reaches task k, which issues its upload.
IssueUpload(k) ==
    /\ tasks[k] = "absent"
    /\ tasks' = [tasks EXCEPT ![k] = "uploading"]
    /\ uploadCalls' = uploadCalls \cup
           {[task |-> k, public_id |-> FullPublicId(k),
             existed |-> FullPublicId(k) \in cloudIds]}
    /\ UNCHANGED <<OutsideUpload, upPc, imageFiles, missingFiles, batchStart, cloudIds,
                   uploaded, skipped, failed>>

\* The upload of task k succeeds (with overwrite: false an existing asset is
\* answered with its own record): the result names a public_id.
UploadSucceeds(k) ==
    /\ tasks[k] = "uploading"
    /\ cloudIds' = cloudIds \cup {FullPublicId(k)}
    /\ Settle(k, "uploaded")
    /\ uploaded' = uploaded + 1
    /\ UNCHANGED <<OutsideUpload, imageFiles, missingFiles, batchStart, skipped, failed,
                   uploadCalls>>

\* The upload of task k throws, or its result names no public_id.
UploadFails(k) ==
    /\ tasks[k] = "uploading"
    /\ Settle(k, "failed")
    /\ failed' = failed + 1
    /\ UNCHANGED <<OutsideUpload, imageFiles, missingFiles, batchStart, cloudIds, uploaded,
                   skipped, uploadCalls>>

UploadNext ==
    \/ UploadStart
    \/ DelayEnds
    \/ \E k \in DOMAIN tasks :
          \/ CheckFindsIt(k)
          \/ CheckFindsNothing(k)
          \/ CheckFails(k)
          \/ IssueUpload(k)
          \/ UploadSucceeds(k)
          \/ UploadFails(k)

SpecUpload == UploadInit /\ [][UploadNext]_vars

(***************************************************************************)
(* Claims about the batch upload (checked under SpecUpload).               *)
(***************************************************************************)
\* The tasks that have started and not settled.
InFlightTasks == {k \in DOMAIN tasks : tasks[k] \in {"checking", "absent", "uploading"}}

\* The number of the batch of file k: files 1..5 make batch 0, and so on.
BatchNumber(k) == (k - 1) \div batchSize

\* C23: at no moment are more than 5 tasks in flight, and a task has started
\* only if every task of the earlier batches has settled, as uploaded,
\* skipped or failed.
C23_BatchesOfFive ==
    /\ Cardinality(InFlightTasks) <= batchSize
    /\ \A k, l \in DOMAIN tasks :
           (BatchNumber(l) < BatchNumber(k) /\ tasks[k] # "waiting") => Settled(tasks[l])

\* C23 witness: the sixth file's task is in flight after the first batch has
\* settled with an upload, a skip and a failure.
C23_Witness ==
    /\ Len(imageFiles) = 6 /\ tasks[6] = "checking"
    /\ \A k \in 1..5 : Settled(tasks[k])
    /\ uploaded > 0 /\ skipped > 0 /\ failed > 0

\* C24: no upload is issued for a public id that exists on the remote at the
\* moment the upload is issued.
C24_NoUploadOverExisting == \A c \in uploadCalls : ~c.existed

\* What the code does instead: an upload is issued over an existing id only
\* when another task of the same batch has uploaded to that id after this
\* task's check was answered; across batches the file is skipped.
C24_OverExistingOnlyWithinBatch ==
    \A c \in uploadCalls :
        c.existed =>
            \E d \in uploadCalls :
                /\ d.task # c.task /\ d.public_id = c.public_id
                /\ BatchNumber(d.task) = BatchNumber(c.task)
                /\ tasks[d.task] = "uploaded"

\* The files whose task has ended as t.
Ended(t) == {k \in DOMAIN tasks : tasks[k] = t}

\* C25: each counter counts the files whose task ended that way, so that at
\* every point uploaded + skipped + failed is the number of settled tasks,
\* and at the summary it is the number of image files found.
C25_EveryFileCountedOnce ==
    /\ uploaded = Cardinality(Ended("uploaded"))
    /\ skipped = Cardinality(Ended("skipped"))
    /\ failed = Cardinality(Ended("failed"))
    /\ uploaded + skipped + failed = Cardinality({k \in DOMAIN tasks : Settled(tasks[k])})
    /\ upPc = "done" => uploaded + skipped + failed = Len(imageFiles)

\* C25 witness: the summary of a run over six files, one of them gone, with
\* uploads, a skip and a failed check.
C25_Witness ==
    /\ upPc = "done" /\ Len(imageFiles) = 6 /\ missingFiles = {1}
    /\ uploaded = 3 /\ skipped = 1 /\ failed = 2

\* ---------------------------------------------------------------------------
\* HEIC converter (scripts/convert-heic.js)
\*
\* A run of the script walks the gallery folders in order.  Without
\* --delete-only it calls processGallery on each folder and, with --delete,
\* deleteHeicFiles on each folder afterwards; with --delete-only it calls
\* deleteHeicFiles alone.  Both functions list the folder once and then handle
\* its HEIC files one by one, so a step of the model is one file.  File names
\* are compared as the file system compares them, case-sensitively.
\* ---------------------------------------------------------------------------

MaxRuns == 2

HEIC_EXT == <<".", "h", "e", "i", "c">>
JPG_EXT == <<".", "j", "p", "g">>

A_HEIC == <<"a", ".", "h", "e", "i", "c">>
A_JPG == <<"a", ".", "j", "p", "g">>
B_HEIC == <<"B", ".", "H", "E", "I", "C">>
B_JPG == <<"B", ".", "j", "p", "g">>
C_HEIC == <<"c", ".", "h", "e", "i", "c">>
C_JPG_UPPER == <<"c", ".", "J", "P", "G">>

\* What readdir may find in each of the two gallery folders, in listing order.
FolderNames == << <<A_HEIC, A_JPG, B_HEIC>>, <<C_HEIC, C_JPG_UPPER>> >>

Range(seq) == {seq[i] : i \in DOMAIN seq}

\* Every combination of the flags --delete / -d and --delete-only.
HeicModes == [shouldDelete : BOOLEAN, deleteOnly : BOOLEAN]

\* file.toLowerCase()
ToLowerCase(file) == [i \in DOMAIN file |-> ToLower(file[i])]

\* file.toLowerCase().endsWith(".heic")
IsHeicName(file) == EndsWith(ToLowerCase(file), HEIC_EXT)

\* heicFile.replace(/\.heic$/i, ".jpg")
JpegNameOf(heicFile) ==
    IF EndsWith(ToLowerCase(heicFile), HEIC_EXT)
    THEN SubSeq(heicFile, 1, Len(heicFile) - Len(HEIC_EXT)) \o JPG_EXT
    ELSE heicFile

\* files.filter(...) of processGallery and deleteHeicFiles on folder g of disk d.
HeicFilesIn(d, g) == SelectSeq(FolderNames[g], LAMBDA file : file \in d[g] /\ IsHeicName(file))

\* fs.existsSync(jpegPath) on folder g of disk d.
JpegExists(d, g, heicFile) == JpegNameOf(heicFile) \in d[g]

\* Where the run stands when folder g is the next one to enter in the given
\* phase on disk d: folders without HEIC files return at once, the conversion
\* loop of a --delete run is followed by the deletion loop, and after the last
\* loop the run is over.
RECURSIVE EnterFrom(_, _, _, _)
EnterFrom(phase, g, d, mode) ==
    IF g > Len(FolderNames)
    THEN IF phase = "converting" /\ mode.shouldDelete
         THEN EnterFrom("deleting", 1, d, mode)
         ELSE [pc |-> "ready", gallery |-> 0, files |-> <<>>, index |-> 0]
    ELSE IF HeicFilesIn(d, g) = <<>>
         THEN EnterFrom(phase, g + 1, d, mode)
         ELSE [pc |-> phase, gallery |-> g, files |-> HeicFilesIn(d, g), index |-> 1]

\* The position after the file at heicIndex has been handled, on disk d.
AfterFile(d) ==
    IF heicIndex < Len(heicFiles)
    THEN [pc |-> heicPc, gallery |-> heicGallery, files |-> heicFiles, index |-> heicIndex + 1]
    ELSE EnterFrom(heicPc, heicGallery + 1, d, heicMode)

\* Move to position pos; the counters start again in every folder.
MoveTo(pos) ==
    /\ heicPc' = pos.pc
    /\ heicGallery' = pos.gallery
    /\ heicFiles' = pos.files
    /\ heicIndex' = pos.index

CountAfter(pos, count) ==
    IF pos.gallery = heicGallery /\ pos.pc = heicPc THEN count ELSE NoCount

LogEntry(op, d, g, file) ==
    [op |-> op, gallery |-> g, file |-> file, jpegExisted |-> JpegNameOf(file) \in d[g]]

HeicInit ==
    /\ env = NoEnv
    /\ PathIdle
    /\ IdxIdle
    /\ UrlIdle
    /\ ListIdle
    /\ GalIdle
    /\ MetaIdle
    /\ UploadIdle
    /\ heicPc = "ready"
    /\ heicMode = [shouldDelete |-> FALSE, deleteOnly |-> FALSE]
    /\ heicRuns = 0
    /\ heicDisk \in [1 .. Len(FolderNames) -> SUBSET {A_HEIC, A_JPG, B_HEIC, C_HEIC, C_JPG_UPPER}]
    /\ \A g \in DOMAIN heicDisk : heicDisk[g] \subseteq Range(FolderNames[g])
    /\ heicDisk0 = heicDisk
    /\ heicGallery = 0
    /\ heicFiles = <<>>
    /\ heicIndex = 0
    /\ heicCount = NoCount
    /\ heicLog = {}

\* main: read the flags and enter the first loop.
HeicRunStarts(mode) ==
    /\ heicPc = "ready"
    /\ heicRuns < MaxRuns
    /\ heicRuns' = heicRuns + 1
    /\ heicMode' = mode
    /\ MoveTo(EnterFrom(IF mode.deleteOnly THEN "deleting" ELSE "converting", 1, heicDisk, mode))
    /\ heicCount' = NoCount
    /\ UNCHANGED <<heicDisk, heicDisk0, heicLog, OutsideHeic>>

\* processGallery, one turn of the loop on a file whose JPEG exists.
SkipExisting ==
    /\ heicPc = "converting"
    /\ JpegExists(heicDisk, heicGallery, heicFiles[heicIndex])
    /\ heicLog' = heicLog \cup {LogEntry("skip", heicDisk, heicGallery, heicFiles[heicIndex])}
    /\ MoveTo(AfterFile(heicDisk))
    /\ heicCount' = CountAfter(AfterFile(heicDisk),
                               [heicCount EXCEPT !.skipped = heicCount.skipped + 1])
    /\ UNCHANGED <<heicMode, heicRuns, heicDisk, heicDisk0, OutsideHeic>>

\* processGallery, one turn of the loop on a file without JPEG:
\* convertHeicToJpeg writes the JPEG ("written"), fails before writing
\* ("failed"), or fails while writing and leaves a partial file ("partial").
Convert(outcome) ==
    /\ heicPc = "converting"
    /\ ~JpegExists(heicDisk, heicGallery, heicFiles[heicIndex])
    /\ heicLog' = heicLog \cup {LogEntry("convert", heicDisk, heicGallery, heicFiles[heicIndex])}
    /\ heicDisk' =
          IF outcome = "failed" THEN heicDisk
          ELSE [heicDisk EXCEPT ![heicGallery] = @ \cup {JpegNameOf(heicFiles[heicIndex])}]
    /\ MoveTo(AfterFile(heicDisk'))
    /\ heicCount' = CountAfter(AfterFile(heicDisk'),
                               IF outcome = "written"
                               THEN [heicCount EXCEPT !.converted = heicCount.converted + 1]
                               ELSE heicCount)
    /\ UNCHANGED <<heicMode, heicRuns, heicDisk0, OutsideHeic>>

\* A mutant of DeleteHeic: the HEIC file is unlinked whether or not its JPEG
\* exists.
DeleteHeicUnguarded(unlinked) ==
    /\ heicPc = "deleting"
    /\ heicLog' =
          IF unlinked
          THEN heicLog \cup {LogEntry("delete", heicDisk, heicGallery, heicFiles[heicIndex])}
          ELSE heicLog
    /\ heicDisk' =
          IF unlinked
          THEN [heicDisk EXCEPT ![heicGallery] = @ \ {heicFiles[heicIndex]}]
          ELSE heicDisk
    /\ MoveTo(AfterFile(heicDisk'))
    /\ heicCount' = CountAfter(AfterFile(heicDisk'),
                               IF unlinked
                               THEN [heicCount EXCEPT !.deleted = heicCount.deleted + 1]
                               ELSE heicCount)
    /\ UNCHANGED <<heicMode, heicRuns, heicDisk0, OutsideHeic>>

\* deleteHeicFiles, one turn of the loop: if the JPEG exists the HEIC file is
\* unlinked, and the unlink succeeds or throws; otherwise nothing is done.
DeleteHeic(unlinked) ==
    /\ heicPc = "deleting"
    /\ unlinked => JpegExists(heicDisk, heicGallery, heicFiles[heicIndex])
    /\ heicLog' =
          IF unlinked
          THEN heicLog \cup {LogEntry("delete", heicDisk, heicGallery, heicFiles[heicIndex])}
          ELSE heicLog
    /\ heicDisk' =
          IF unlinked
          THEN [heicDisk EXCEPT ![heicGallery] = @ \ {heicFiles[heicIndex]}]
          ELSE heicDisk
    /\ MoveTo(AfterFile(heicDisk'))
    /\ heicCount' = CountAfter(AfterFile(heicDisk'),
                               IF unlinked
                               THEN [heicCount EXCEPT !.deleted = heicCount.deleted + 1]
                               ELSE heicCount)
    /\ UNCHANGED <<heicMode, heicRuns, heicDisk0, OutsideHeic>>

HeicNext ==
    \/ \E mode \in HeicModes : HeicRunStarts(mode)
    \/ SkipExisting
    \/ \E outcome \in {"written", "failed", "partial"} : Convert(outcome)
    \/ \E unlinked \in BOOLEAN : DeleteHeic(unlinked)

SpecHeic == HeicInit /\ [][HeicNext]_vars

\* The HEIC files of folder g that were there before the first run and are
\* gone now.
RemovedHeic(g) == {file \in heicDisk0[g] : IsHeicName(file) /\ file \notin heicDisk[g]}

\* C26: across any runs of the converter (plain, --delete, --delete-only, with
\* conversions and deletions that may fail), a HEIC file is deleted only when
\* the .jpg of the same base name is in the same folder at that moment, so no
\* removed HEIC file is without its JPEG afterwards; and a HEIC file whose JPEG
\* exists is skipped, never converted again.
C26_DeletedOnlyWithJpeg ==
    /\ \A e \in heicLog : e.op = "delete" => e.jpegExisted
    /\ \A e \in heicLog : e.op = "convert" => ~e.jpegExisted
    /\ \A e \in heicLog : e.op = "skip" => e.jpegExisted
    /\ \A g \in DOMAIN heicDisk : \A file \in RemovedHeic(g) :
          SubSeq(file, 1, Len(file) - Len(HEIC_EXT)) \o JPG_EXT \in heicDisk[g]

\* Two runs: the first, plain, fails to convert B.HEIC and skips a.heic; the
\* second, with --delete, converts B.HEIC and deletes both, while c.heic,
\* whose conversion failed, stays next to c.JPG.
C26_Witness ==
    /\ heicPc = "ready" /\ heicRuns = 2
    /\ heicDisk0[1] = {A_HEIC, A_JPG, B_HEIC} /\ heicDisk0[2] = {C_HEIC, C_JPG_UPPER}
    /\ heicDisk[1] = {A_JPG, B_JPG} /\ heicDisk[2] = {C_HEIC, C_JPG_UPPER}
    /\ \E e \in heicLog : e.op = "skip" /\ e.file = A_HEIC
    /\ \E e \in heicLog : e.op = "delete" /\ e.file = B_HEIC

====
